---- MODULE Spec2Model ----
(***************************************************************************)
(* Order-book (ladder) builder of the betting-exchange pipeline:           *)
(* LadderBuilder (exchange/orderbook.py) and MetadataBuilder               *)
(* (exchange/metadata.py), and the pipeline that feeds it the files of a    *)
(* folder and writes its output to the store (exchange/main.py,            *)
(* exchange/mongo.py).                                                     *)
(*                                                                         *)
(* Units.  A price is an integer number of ticks.  A size is an integer    *)
(* number of thousandths of a currency unit, so that round(x, 2) is a      *)
(* rounding to a multiple of 10.  A pt is an integer number of             *)
(* milliseconds; a pd.Timestamp is an integer number of microseconds.      *)
(* A Python dict is a sequence of <<key, value>> pairs in insertion order. *)
(* A dict with optional string keys (a formatted runner, a ts document,    *)
(* the metadata) is a function whose DOMAIN is the set of keys present.    *)
(***************************************************************************)
EXTENDS Integers, Sequences, FiniteSets, TLC

VARIABLES
    marketdata,      \* self.marketdata: the packets of the file, in file order
    runner_ids,      \* self.runner_ids: roster of the first market definition
    current_ladder,  \* self.current_ladder: runner id -> book
    ladders,         \* self.ladders: ts documents appended so far
    in_play_start,   \* self.in_play_start (None when never in-play)
    in_play_end,     \* self.in_play_end
    pre0ladder,      \* MetadataBuilder.pre0ladder: <<>> (None) or <<ts document>>
    pre5ladder,      \* MetadataBuilder.pre5ladder
    pre10ladder,     \* MetadataBuilder.pre10ladder
    metadata,        \* MetadataBuilder.metadata
    i,               \* number of packets run() has fully processed
    pc,              \* "run": in the loop of run(); "done": run() returned;
                     \* "failed": run() left by an exception
    ts_marketdata,   \* the packets run() has rewritten so far (self.marketdata[:i])
    runs,            \* what each completed call of run() returned
    sport,           \* the sport: selects the filters of main and the meta_builder
    files,           \* main: the files fetch_files_from_s3() lists, in order
    is_multiprocess, \* main: the is_multiprocess argument
    next_file,       \* main: number of files the loop of main has taken
    run_pc,          \* per file, the position of its call of run(): "waiting",
                     \* "start", "built", "meta", "ladders", "returned", "raised"
    result_meta,     \* per file, result_meta of run(): "none" before insert_one
    db,              \* the store: the documents of each collection, and the names
                     \* of the collections that exist
    batches,         \* per file, the batches of the insert_many call in progress
    main_pc          \* "loop", "exit", "exit_raised", "done", "raised"

builder_vars == <<marketdata, runner_ids, current_ladder, ladders, in_play_start,
                  in_play_end, pre0ladder, pre5ladder, pre10ladder, metadata, i, pc,
                  ts_marketdata, runs, sport>>

main_vars == <<files, is_multiprocess, next_file, run_pc, result_meta, db, batches,
               main_pc>>

vars == <<marketdata, runner_ids, current_ladder, ladders, in_play_start, in_play_end,
          pre0ladder, pre5ladder, pre10ladder, metadata, i, pc, ts_marketdata, runs,
          sport, files, is_multiprocess, next_file, run_pc, result_meta, db, batches,
          main_pc>>

-----------------------------------------------------------------------------
(* Bounds of the model *)

MaxPackets == 3

(* Program constants *)

None == -1
Infinity == 1000000000
UsPerMs == 1000
TopN == 10
\* mutant of FIVE_MINUTES: one millisecond more
FIVE_MINUTES_and_one == 5 * 60 * 1000 + 1
FIVE_MINUTES == 5 * 60 * 1000
TEN_MINUTES == 10 * 60 * 1000
ONE_SECOND == 1000

default_best_back_price == 0
default_best_lay_price == Infinity

-----------------------------------------------------------------------------
(* Python built-ins *)

Range(s) == {s[j] : j \in 1..Len(s)}

Min(a, b) == IF a < b THEN a ELSE b

RemoveAt(s, j) == SubSeq(s, 1, j - 1) \o SubSeq(s, j + 1, Len(s))

Reverse(s) == [j \in 1..Len(s) |-> s[Len(s) + 1 - j]]

\* key in d
HasKey(d, k) == \E j \in 1..Len(d) : d[j][1] = k

\* d.get(k, default)
DictGet(d, k, default) ==
    IF HasKey(d, k) THEN (CHOOSE e \in Range(d) : e[1] = k)[2] ELSE default

\* d[k] = v: an existing key keeps its position, a new key goes last
DictSet(d, k, v) ==
    IF HasKey(d, k)
    THEN [j \in 1..Len(d) |-> IF d[j][1] = k THEN <<k, v>> ELSE d[j]]
    ELSE Append(d, <<k, v>>)

\* d.update(items), items in iteration order
RECURSIVE DictUpdate(_, _)
DictUpdate(d, items) ==
    IF items = <<>> THEN d
    ELSE DictUpdate(DictSet(d, Head(items)[1], Head(items)[2]), Tail(items))

\* sorted(d.items()): ascending by (key, value); the keys of a dict are distinct
RECURSIVE sorted(_)
sorted(items) ==
    IF items = <<>> THEN <<>>
    ELSE LET m == CHOOSE j \in 1..Len(items) :
                      \A k \in 1..Len(items) : items[j][1] <= items[k][1]
         IN  <<items[m]>> \o sorted(RemoveAt(items, m))

\* sorted(d.items(), reverse=True)
sorted_reverse(items) == Reverse(sorted(items))

\* s[:n]
Take(s, n) == SubSeq(s, 1, Min(n, Len(s)))

\* round(x, 2) on thousandths: the nearest multiple of 10, a tie to the even one
round2(x) ==
    LET q == x \div 10
        r == x % 10
    IN  IF r < 5 THEN 10 * q
        ELSE IF r > 5 THEN 10 * (q + 1)
        ELSE IF q % 2 = 0 THEN 10 * q ELSE 10 * (q + 1)

\* an optional key of a dict: present only when cond holds
Opt(k, cond, v) == IF cond THEN k :> v ELSE <<>>

\* pd.to_datetime(pt, unit="ms")
to_datetime(pt) == pt * UsPerMs

\* (a - b).total_seconds() * 1000 for two timestamps
milliseconds_between(a, b) == (a - b) \div UsPerMs

-----------------------------------------------------------------------------
(* LadderBuilder: the per-runner book *)

\* list_ladder_to_dict: {item[0]: item[1] for item in ladder}
list_ladder_to_dict(ladder) == DictUpdate(<<>>, ladder)

\* mutant of positive_entries: a level of size 0 is kept
positive_entries_keeps_zero(ladder) == SelectSeq(ladder, LAMBDA e : e[2] >= 0)

\* the filter of update_runner_ladder: the entries with value > 0
positive_entries(ladder) == SelectSeq(ladder, LAMBDA e : e[2] > 0)

\* mutant of update_runner_ladder: the levels stay in their order of arrival
update_runner_ladder_unsorted(runner_ladder, runner_change, price_key) ==
    LET update_dict == list_ladder_to_dict(runner_change[price_key])
        merged == DictUpdate(runner_ladder[price_key], update_dict)
        ladder == SelectSeq(merged, LAMBDA e : e[2] > 0)
    IN  IF price_key = "trd" THEN ladder ELSE Take(ladder, TopN)

\* mutant of update_runner_ladder: a runner change without the key empties the side
update_runner_ladder_or_empty(runner_ladder, runner_change, price_key) ==
    LET update_dict == list_ladder_to_dict(runner_change[price_key])
        merged == DictUpdate(runner_ladder[price_key], update_dict)
        ladder == IF update_dict = <<>> THEN <<>> ELSE positive_entries(merged)
    IN  IF price_key = "atb" THEN Take(sorted_reverse(ladder), TopN)
        ELSE IF price_key = "atl" THEN Take(sorted(ladder), TopN)
        ELSE sorted(ladder)

\* update_runner_ladder: merge, drop the sizes <= 0, sort, keep the top 10 of atb/atl
update_runner_ladder(runner_ladder, runner_change, price_key) ==
    LET update_dict == list_ladder_to_dict(runner_change[price_key])
        merged == DictUpdate(runner_ladder[price_key], update_dict)
        ladder == positive_entries(merged)
    IN  IF price_key = "atb" THEN Take(sorted_reverse(ladder), TopN)
        ELSE IF price_key = "atl" THEN Take(sorted(ladder), TopN)
        ELSE sorted(ladder)

\* the book of one runner in create_ladder_ds
empty_runner_ladder ==
    [atb |-> <<>>, atl |-> <<>>, trd |-> <<>>, trades |-> <<>>,
     ltp |-> None, tv |-> None, ttrdv |-> 0,
     bbp |-> default_best_back_price, blp |-> default_best_lay_price]

\* create_ladder_ds
create_ladder_ds(ids) == [r \in Range(ids) |-> empty_runner_ladder]

\* whether a value is truthy: neither None nor 0
truthy(value) == value # None /\ value # 0

\* mutant of update_runner_value: the value of the change is stored whenever the
\* change has the key
update_runner_value_if_present(runner_ladder, runner_change, key) ==
    IF runner_change[key] # None THEN runner_change[key] ELSE runner_ladder[key]

\* update_runner_value: value if value else runner_ladder[key]; runner_change.get(key)
\* is None when the key is missing
update_runner_value(runner_ladder, runner_change, key) ==
    IF truthy(runner_change[key]) THEN runner_change[key] ELSE runner_ladder[key]

\* the side of a trade in update_runner_trades
trade_side(traded_price, bbp, blp) ==
    IF traded_price <= bbp THEN "b"
    ELSE IF traded_price >= blp THEN "l"
    ELSE "nan"

\* mutant of traded_volume: the cumulative size is taken as the volume of the trade
traded_volume_cumulative(total_volume, current_trd, traded_price) ==
    round2(total_volume)

\* the volume of a trade in update_runner_trades
traded_volume(total_volume, current_trd, traded_price) ==
    round2(total_volume - DictGet(current_trd, traded_price, 0))

\* mutant of is_recorded: a trade is recorded whatever its volume
is_recorded_always(volume) == TRUE

\* whether update_runner_trades records the trade
is_recorded(volume) == ~(volume <= 0)

\* the loop of update_runner_trades over the trd updates left; acc = [trades, ttrdv]
RECURSIVE trades_loop(_, _, _)
trades_loop(runner_ladder, updates, acc) ==
    IF updates = <<>> THEN acc
    ELSE LET traded_price == Head(updates)[1]
             volume == traded_volume(Head(updates)[2], runner_ladder.trd, traded_price)
         IN  IF ~is_recorded(volume)
             THEN trades_loop(runner_ladder, Tail(updates), acc)
             ELSE trades_loop(runner_ladder, Tail(updates),
                      [trades |-> Append(acc.trades,
                                     <<traded_price, volume,
                                       trade_side(traded_price, runner_ladder.bbp,
                                                  runner_ladder.blp)>>),
                       ttrdv |-> acc.ttrdv + volume])

\* update_runner_trades: the trades of this runner change and the ttrdv it leaves
update_runner_trades(runner_ladder, runner_change) ==
    trades_loop(runner_ladder, runner_change.trd,
                [trades |-> <<>>, ttrdv |-> runner_ladder.ttrdv])

\* mutant of update_runner: atb and atl are merged and the best prices taken from
\* them before the trades are derived
update_runner_quotes_first(runner_ladder, runner_change) ==
    LET atb == update_runner_ladder(runner_ladder, runner_change, "atb")
        atl == update_runner_ladder(runner_ladder, runner_change, "atl")
        seen == [runner_ladder EXCEPT
                    !.bbp = IF atb = <<>> THEN default_best_back_price ELSE atb[1][1],
                    !.blp = IF atl = <<>> THEN default_best_lay_price ELSE atl[1][1]]
        t == update_runner_trades(seen, runner_change)
    IN  [runner_ladder EXCEPT
            !.trades = t.trades, !.ttrdv = t.ttrdv, !.atb = atb, !.atl = atl,
            !.trd = update_runner_ladder(runner_ladder, runner_change, "trd"),
            !.ltp = update_runner_value(runner_ladder, runner_change, "ltp"),
            !.tv = update_runner_value(runner_ladder, runner_change, "tv")]

\* mutant of update_runner: the trd mapping is merged before the trades are derived
update_runner_trd_first(runner_ladder, runner_change) ==
    LET l0 == [runner_ladder EXCEPT !.trd = update_runner_ladder(runner_ladder, runner_change, "trd")]
        t == update_runner_trades(l0, runner_change)
        l1 == [l0 EXCEPT !.trades = t.trades, !.ttrdv = t.ttrdv]
        l2 == [l1 EXCEPT !.atb = update_runner_ladder(l1, runner_change, "atb")]
        l3 == [l2 EXCEPT !.atl = update_runner_ladder(l2, runner_change, "atl")]
        l5 == [l3 EXCEPT !.ltp = update_runner_value(l3, runner_change, "ltp")]
    IN  [l5 EXCEPT !.tv = update_runner_value(l5, runner_change, "tv")]

\* the body of the loop of update_ladder for one runner change
update_runner(runner_ladder, runner_change) ==
    LET t == update_runner_trades(runner_ladder, runner_change)
        l1 == [runner_ladder EXCEPT !.trades = t.trades, !.ttrdv = t.ttrdv]
        l2 == [l1 EXCEPT !.atb = update_runner_ladder(l1, runner_change, "atb")]
        l3 == [l2 EXCEPT !.atl = update_runner_ladder(l2, runner_change, "atl")]
        l4 == [l3 EXCEPT !.trd = update_runner_ladder(l3, runner_change, "trd")]
        l5 == [l4 EXCEPT !.ltp = update_runner_value(l4, runner_change, "ltp")]
    IN  [l5 EXCEPT !.tv = update_runner_value(l5, runner_change, "tv")]

\* the loop of update_ladder over the runner changes left; a runner id that is not a
\* key of current_ladder raises KeyError with the earlier changes applied
RECURSIVE update_ladder_loop(_, _)
update_ladder_loop(ladder, rc) ==
    IF rc = <<>> THEN [raised |-> FALSE, ladder |-> ladder]
    ELSE LET runner_id == ToString(Head(rc).id)
         IN  IF runner_id \notin DOMAIN ladder
             THEN [raised |-> TRUE, ladder |-> ladder]
             ELSE update_ladder_loop(
                      [ladder EXCEPT ![runner_id] = update_runner(@, Head(rc))],
                      Tail(rc))

\* update_ladder: market_change["rc"] raises KeyError when the key is missing
update_ladder(ladder, market_change) ==
    IF ~market_change.has_rc THEN [raised |-> TRUE, ladder |-> ladder]
    ELSE update_ladder_loop(ladder, market_change.rc)

\* the trd mapping of format_ladder: {str(k): v}
format_trd(trd) == [j \in 1..Len(trd) |-> <<ToString(trd[j][1]), trd[j][2]>>]

\* one runner of format_ladder: only the truthy fields
format_runner(ladder) ==
    Opt("atb", ladder.atb # <<>>, ladder.atb)
    @@ Opt("atl", ladder.atl # <<>>, ladder.atl)
    @@ Opt("trd", ladder.trd # <<>>, format_trd(ladder.trd))
    @@ Opt("ltp", ladder.ltp # None /\ ladder.ltp # 0, ladder.ltp)
    @@ Opt("tv", ladder.tv # None /\ ladder.tv # 0, ladder.tv)
    @@ Opt("ttrdv", ladder.ttrdv # 0, round2(ladder.ttrdv))
    @@ Opt("trades", ladder.trades # <<>>, ladder.trades)

\* format_ladder
format_ladder(ladder) == [r \in DOMAIN ladder |-> format_runner(ladder[r])]

\* update_market_definition: None (<<>>) when the market change carries no definition
update_market_definition(packet) == IF packet.md.present THEN <<packet.md>> ELSE <<>>

\* create_ts_document
create_ts_document(ladder, market_definition, pt, market_id) ==
    ("pt" :> pt) @@ ("metadata" :> market_id) @@ ("runners" :> ladder)
    @@ Opt("marketDefinition", market_definition # <<>>, market_definition[1])

\* mutant of best_back_price: reads the last pair of atb instead of the first
best_back_price_last(runner_ladder) ==
    IF "atb" \in DOMAIN runner_ladder
    THEN runner_ladder.atb[Len(runner_ladder.atb)][1]
    ELSE default_best_back_price

\* the best back price check_arbitrage reads off a formatted runner
best_back_price(runner_ladder) ==
    IF "atb" \in DOMAIN runner_ladder THEN runner_ladder.atb[1][1]
    ELSE default_best_back_price

\* the best lay price check_arbitrage reads off a formatted runner
best_lay_price(runner_ladder) ==
    IF "atl" \in DOMAIN runner_ladder THEN runner_ladder.atl[1][1]
    ELSE default_best_lay_price

\* check_arbitrage: its return value
check_arbitrage(runner_ladder) ==
    best_back_price(runner_ladder) > best_lay_price(runner_ladder)

\* mutant of raise_if_arbitrage: a runner whose book is crossed keeps its bbp and blp
raise_if_arbitrage_skips_crossed(ladder, ts_document) ==
    [r \in DOMAIN ladder |->
        IF r \in DOMAIN ts_document.runners /\ ~check_arbitrage(ts_document.runners[r])
        THEN [ladder[r] EXCEPT !.bbp = best_back_price(ts_document.runners[r]),
                               !.blp = best_lay_price(ts_document.runners[r])]
        ELSE ladder[r]]

\* raise_if_arbitrage: sets bbp and blp of every runner of the document, raises nothing
raise_if_arbitrage(ladder, ts_document) ==
    [r \in DOMAIN ladder |->
        IF r \in DOMAIN ts_document.runners
        THEN [ladder[r] EXCEPT !.bbp = best_back_price(ts_document.runners[r]),
                               !.blp = best_lay_price(ts_document.runners[r])]
        ELSE ladder[r]]

\* mutant of appended_after_reset: the trades lists are emptied in place, so the
\* appended document, which shares them with the book, loses its trades
appended_after_clear(ts_document) ==
    [ts_document EXCEPT !.runners =
        [r \in DOMAIN ts_document.runners |->
            IF "trades" \in DOMAIN ts_document.runners[r]
            THEN [ts_document.runners[r] EXCEPT !.trades = <<>>]
            ELSE ts_document.runners[r]]]

\* the document appended to self.ladders once reset_runner_trades has run:
\* format_ladder put the book's trades list itself into the document, and
\* ladder["trades"] = [] binds a new list to the book, so the document keeps its list
appended_after_reset(ts_document) == ts_document

\* reset_runner_trades
reset_runner_trades(ladder) == [r \in DOMAIN ladder |-> [ladder[r] EXCEPT !.trades = <<>>]]

-----------------------------------------------------------------------------
(* LadderBuilder: the packets of the file *)

\* process_packet: the timestamp of a packet
process_packet(packet) == to_datetime(packet.pt)

\* mutant of set_raw_marketdata: the raw packet keeps the pt of the file, in
\* milliseconds, instead of the parsed timestamp
set_raw_marketdata_keeps_pt(packet, pt, market_id) ==
    IF "clk" \notin DOMAIN packet \/ "op" \notin DOMAIN packet
    THEN [raised |-> TRUE, packet |-> packet]
    ELSE [raised |-> FALSE,
          packet |-> [k \in (DOMAIN packet \cup {"metadata"}) \ {"clk", "op"} |->
                         IF k = "metadata" THEN market_id ELSE packet[k]]]

\* set_raw_marketdata: [raised, packet]; del packet["clk"] and del packet["op"]
\* raise KeyError when the packet has no such key
set_raw_marketdata(packet, pt, market_id) ==
    IF "clk" \notin DOMAIN packet \/ "op" \notin DOMAIN packet
    THEN [raised |-> TRUE, packet |-> packet]
    ELSE [raised |-> FALSE,
          packet |-> [k \in (DOMAIN packet \cup {"metadata"}) \ {"clk", "op"} |->
                         IF k = "pt" THEN pt
                         ELSE IF k = "metadata" THEN market_id
                         ELSE packet[k]]]

\* mutant of get_market_definition: the market definition of the last packet
get_market_definition_of_last(data) == data[Len(data)].md

\* get_market_definition: the market definition of the first packet
get_market_definition(data) == data[1].md

\* get_runner_ids
get_runner_ids(market_definition) ==
    [j \in 1..Len(market_definition.runners) |-> ToString(market_definition.runners[j].id)]

\* mutant of get_in_play_start_pt: the first packet that carries a definition,
\* in-play or not
get_in_play_start_pt_any_definition(data) ==
    LET hits == {j \in 1..Len(data) : data[j].md.present}
    IN  IF hits = {} THEN None
        ELSE process_packet(data[CHOOSE j \in hits : \A k \in hits : j <= k])

\* get_in_play_start_pt: the pt of the first packet whose definition is in-play, or None
get_in_play_start_pt(data) ==
    LET hits == {j \in 1..Len(data) : data[j].md.present /\ data[j].md.inPlay}
    IN  IF hits = {} THEN None
        ELSE process_packet(data[CHOOSE j \in hits : \A k \in hits : j <= k])

\* mutant of get_in_play_end_pt: the last packet whose definition is in-play
get_in_play_end_pt_last_in_play(data) ==
    LET hits == {j \in 1..Len(data) : data[j].md.present /\ data[j].md.inPlay}
    IN  IF hits = {} THEN None
        ELSE process_packet(data[CHOOSE j \in hits : \A k \in hits : j >= k])

\* get_in_play_end_pt: the pt of the last packet
get_in_play_end_pt(data) == process_packet(data[Len(data)])

-----------------------------------------------------------------------------
(* MetadataBuilder *)

\* literal in string, and regex.search of a literal: the literal occurs somewhere in the string
occurs(literal, string) ==
    \E k \in 0..(Len(string) - Len(literal)) :
        SubSeq(string, k + 1, k + Len(literal)) = literal

\* format_metadata: the metadata base of a market change that carries a definition
format_metadata(packet) ==
    ("marketId" :> packet.id)
    @@ ("_id" :> <<"metadata", packet.id, packet.md.eventId>>)
    @@ ("eventId" :> packet.md.eventId)
    @@ ("marketDefinition" :> packet.md)

\* MetadataBuilder.__init__: the metadata after construction
initial_metadata(data, start, end) ==
    ("inPlayStartTime" :> start) @@ ("inPlayEndTime" :> end)
    @@ format_metadata(data[Len(data)])

\* mutant of capture: the window includes its bound
capture_inclusive(b, key, window, ms, ts_ladder_document) ==
    IF b.ladder = <<>> /\ ms <= window
    THEN [ladder |-> <<ts_ladder_document>>,
          metadata |-> (key :> ts_ladder_document.runners) @@ b.metadata]
    ELSE b

\* mutant of capture: a field that is set is set again by every document within the
\* window
capture_again(b, key, window, ms, ts_ladder_document) ==
    IF ms < window
    THEN [ladder |-> <<ts_ladder_document>>,
          metadata |-> (key :> ts_ladder_document.runners) @@ b.metadata]
    ELSE b

\* mutant of capture: only a snapshot strictly before the in-play start is taken
capture_strictly_before(b, key, window, ms, ts_ladder_document) ==
    IF b.ladder = <<>> /\ ms < window /\ ms > 0
    THEN [ladder |-> <<ts_ladder_document>>,
          metadata |-> (key :> ts_ladder_document.runners) @@ b.metadata]
    ELSE b

\* one capture of extend_pre_market: b = [ladder, metadata], field unset and within the window
capture(b, key, window, ms, ts_ladder_document) ==
    IF b.ladder = <<>> /\ ms < window
    THEN [ladder |-> <<ts_ladder_document>>,
          metadata |-> (key :> ts_ladder_document.runners) @@ b.metadata]
    ELSE b

\* extend_pre_market: [pre0ladder, pre5ladder, pre10ladder, metadata] after the call
extend_pre_market(pre0, pre5, pre10, meta, start, ts_ladder_document, pt) ==
    IF start = None
    THEN [pre0ladder |-> pre0, pre5ladder |-> pre5, pre10ladder |-> pre10, metadata |-> meta]
    ELSE LET ms == milliseconds_between(start, pt)
             c0 == capture([ladder |-> pre0, metadata |-> meta],
                           "pre0ladder", ONE_SECOND, ms, ts_ladder_document)
             c5 == capture([ladder |-> pre5, metadata |-> c0.metadata],
                           "pre5ladder", FIVE_MINUTES, ms, ts_ladder_document)
             c10 == capture([ladder |-> pre10, metadata |-> c5.metadata],
                            "pre10ladder", TEN_MINUTES, ms, ts_ladder_document)
         IN  [pre0ladder |-> c0.ladder, pre5ladder |-> c5.ladder,
              pre10ladder |-> c10.ladder, metadata |-> c10.metadata]

\* the bsps list of extend_post_market: the truthy bsps, in runner order
collect_bsps(runners) ==
    LET with_bsp == SelectSeq(runners, LAMBDA r : r.bsp # 0)
    IN  [j \in 1..Len(with_bsp) |-> with_bsp[j].bsp]

\* status.index('WINNER'), counted from 1
winner_index(runners) ==
    CHOOSE j \in 1..Len(runners) :
        /\ runners[j].status = "WINNER"
        /\ \A k \in 1..(j - 1) : runners[k].status # "WINNER"

\* extract_winner_info: [raised, info]; info is <<>> for None; bsp[winner_index]
\* raises IndexError when the bsps list is shorter than the winner's position
extract_winner_info(runners, bsps) ==
    IF \A j \in 1..Len(runners) : runners[j].status # "WINNER"
    THEN [raised |-> FALSE, info |-> <<>>]
    ELSE LET w == winner_index(runners)
         IN  IF bsps # <<>> /\ w > Len(bsps)
             THEN [raised |-> TRUE, info |-> <<>>]
             ELSE [raised |-> FALSE,
                   info |-> << ("name" :> runners[w].name) @@ ("id" :> runners[w].id)
                               @@ Opt("bsp", bsps # <<>>, bsps[w]) >>]

\* list.sort(key=lambda x: x[1]): stable, ascending by the second component
RECURSIVE sort_by_bsp(_)
sort_by_bsp(tuples) ==
    IF tuples = <<>> THEN <<>>
    ELSE LET m == CHOOSE j \in 1..Len(tuples) :
                      /\ \A k \in 1..Len(tuples) : tuples[j][2] <= tuples[k][2]
                      /\ \A k \in 1..(j - 1) : tuples[k][2] # tuples[j][2]
         IN  <<tuples[m]>> \o sort_by_bsp(RemoveAt(tuples, m))

\* extract_favourite_info: <<>> for None; the index of a tuple is its position in bsps
extract_favourite_info(runners, bsps) ==
    IF bsps = <<>> THEN <<>>
    ELSE LET bsp_tuples == sort_by_bsp([j \in 1..Len(bsps) |-> <<j, bsps[j]>>])
         IN  [j \in 1..Len(bsp_tuples) |->
                 [name |-> runners[bsp_tuples[j][1]].name,
                  id |-> runners[bsp_tuples[j][1]].id,
                  bsp |-> bsp_tuples[j][2]]]

\* MarketType.WIN.value
MarketType_WIN == <<"W", "I", "N">>

\* mutant of extract_race_type_adjusted: Chase is looked for before Hurdle
extract_race_type_adjusted_chase_first(name) ==
    IF occurs(<<"C", "h", "s">>, name) \/ occurs(<<"C", "h", "a", "s", "e">>, name) THEN "Chase"
    ELSE IF occurs(<<"H", "r", "d">>, name) \/ occurs(<<"H", "u", "r", "d", "l", "e">>, name) THEN "Hurdle"
    ELSE IF occurs(<<"I", "N", "H", "F">>, name) THEN "NH Flat"
    ELSE "Flat"

\* HorseRacingMetadataBuilder.extract_race_type_adjusted
extract_race_type_adjusted(name) ==
    IF occurs(<<"H", "r", "d">>, name) \/ occurs(<<"H", "u", "r", "d", "l", "e">>, name) THEN "Hurdle"
    ELSE IF occurs(<<"C", "h", "s">>, name) \/ occurs(<<"C", "h", "a", "s", "e">>, name) THEN "Chase"
    ELSE IF occurs(<<"I", "N", "H", "F">>, name) THEN "NH Flat"
    ELSE "Flat"

\* \d
is_digit(c) == c \in {"0", "1", "2", "3", "4", "5", "6", "7", "8", "9"}

\* the position of the last digit of the longest run of digits that starts at
\* position k of the name; k - 1 when there is no digit at k
digits_end(name, k) ==
    CHOOSE e \in (k - 1)..Len(name) :
        /\ \A j \in k..e : is_digit(name[j])
        /\ e = Len(name) \/ ~is_digit(name[e + 1])

\* the position where a match of (\d+m\d*f|\d+m|\d+f) that starts at position k
\* ends, the alternatives tried in their order; 0 when none matches at k
distance_match_end(name, k) ==
    LET e == digits_end(name, k)
    IN  IF e < k \/ e = Len(name) THEN 0
        ELSE IF name[e + 1] = "m"
        THEN LET f == digits_end(name, e + 2)
             IN  IF f < Len(name) /\ name[f + 1] = "f" THEN f + 1 ELSE e + 1
        ELSE IF name[e + 1] = "f" THEN e + 1
        ELSE 0

\* HorseRacingMetadataBuilder.extract_distance: the leftmost match, None without one
extract_distance(name) ==
    LET starts == {k \in 1..Len(name) : distance_match_end(name, k) # 0}
    IN  IF starts = {} THEN None
        ELSE LET k == CHOOSE k \in starts : \A l \in starts : k <= l
             IN  SubSeq(name, k, distance_match_end(name, k))

\* HorseRacingMetadataBuilder.is_handicap
is_handicap(name) == occurs(<<"H", "c", "a", "p">>, name) \/ occurs(<<"H", "a", "n", "d", "i", "c", "a", "p">>, name)

\* mutant of _extend_post_market: the horse-racing hook adds its fields to every market
_extend_post_market_any_market(meta, meta_builder, market_name) ==
    IF meta_builder = "horseracing"
    THEN ("raceTypeAdjusted" :> extract_race_type_adjusted(market_name))
         @@ ("distance" :> extract_distance(market_name))
         @@ ("isHandicap" :> is_handicap(market_name))
         @@ meta
    ELSE meta

\* _extend_post_market of the builder of the sport: the horse-racing hook adds its
\* fields to a WIN market, the football and the tennis hook pass
_extend_post_market(meta, meta_builder, market_name) ==
    IF meta_builder = "horseracing" /\ meta.marketDefinition.marketType = MarketType_WIN
    THEN ("raceTypeAdjusted" :> extract_race_type_adjusted(market_name))
         @@ ("distance" :> extract_distance(market_name))
         @@ ("isHandicap" :> is_handicap(market_name))
         @@ meta
    ELSE meta

\* extend_post_market, the sport hook last: [raised, metadata]
extend_post_market(meta, meta_builder) ==
    LET market_name == meta.marketDefinition.name
        runners == meta.marketDefinition.runners
        bsps == collect_bsps(runners)
        winner == extract_winner_info(runners, bsps)
        favourite_info == extract_favourite_info(runners, bsps)
    IN  IF winner.raised THEN [raised |-> TRUE, metadata |-> meta]
        ELSE [raised |-> FALSE,
              metadata |-> _extend_post_market(
                               Opt("winnerInfo", winner.info # <<>>, winner.info[1])
                               @@ Opt("favouriteInfo", favourite_info # <<>>, favourite_info)
                               @@ meta,
                               meta_builder, market_name)]

-----------------------------------------------------------------------------
(* The state after LadderBuilder(marketdata, market_definition, meta_builder) *)

\* the store with no document
empty_db == [metadata |-> {}, ladders |-> {}, marketdata |-> {}, collections |-> {}]

\* the builder on its own, on the packets of one file: main lists no file
NoFiles ==
    /\ files = <<>>
    /\ is_multiprocess = FALSE
    /\ next_file = 0
    /\ run_pc = <<>>
    /\ result_meta = <<>>
    /\ db = empty_db
    /\ batches = <<>>
    /\ main_pc = "loop"

\* LadderBuilder(marketdata, market_definition, meta_builder) on the packets data
InitBuilder(data, meta_builder) ==
    /\ NoFiles
    /\ sport = meta_builder
    /\ ts_marketdata = <<>>
    /\ runs = <<>>
    /\ marketdata = data
    /\ runner_ids = get_runner_ids(get_market_definition(marketdata))
    /\ current_ladder = create_ladder_ds(runner_ids)
    /\ ladders = <<>>
    /\ in_play_start = get_in_play_start_pt(marketdata)
    /\ in_play_end = get_in_play_end_pt(marketdata)
    /\ pre0ladder = <<>>
    /\ pre5ladder = <<>>
    /\ pre10ladder = <<>>
    /\ metadata = initial_metadata(marketdata, in_play_start, in_play_end)
    /\ i = 0
    /\ pc = "run"

\* the builder with the football hook, which adds nothing to the metadata
InitWith(data) == InitBuilder(data, "football")

(* One iteration of the loop of run() on the next packet; market_change is what   *)
(* the packet carries for the runners: [has_rc, rc].                              *)
run_iteration(market_change) ==
    /\ pc = "run"
    /\ i < Len(marketdata)
    /\ LET packet == marketdata[i + 1]
           pt == process_packet(packet)
           raw == set_raw_marketdata(packet, pt, metadata.marketId)
           updated == IF raw.raised THEN [raised |-> TRUE, ladder |-> current_ladder]
                      ELSE update_ladder(current_ladder, market_change)
           market_definition == update_market_definition(packet)
           formatted_ladder == format_ladder(updated.ladder)
           ts_ladder_document ==
               create_ts_document(formatted_ladder, market_definition, pt,
                                  metadata.marketId)
           checked == raise_if_arbitrage(updated.ladder, ts_ladder_document)
           pre == extend_pre_market(pre0ladder, pre5ladder, pre10ladder, metadata,
                                    in_play_start, ts_ladder_document, pt)
       IN  IF updated.raised
           THEN /\ current_ladder' = updated.ladder
                /\ pc' = "failed"
                /\ UNCHANGED <<ladders, pre0ladder, pre5ladder, pre10ladder, metadata, i,
                               ts_marketdata>>
           ELSE /\ current_ladder' = reset_runner_trades(checked)
                /\ ts_marketdata' = Append(ts_marketdata, raw.packet)
                /\ ladders' = Append(ladders, appended_after_reset(ts_ladder_document))
                /\ pre0ladder' = pre.pre0ladder
                /\ pre5ladder' = pre.pre5ladder
                /\ pre10ladder' = pre.pre10ladder
                /\ metadata' = pre.metadata
                /\ i' = i + 1
                /\ pc' = "run"
    /\ UNCHANGED <<marketdata, runner_ids, in_play_start, in_play_end, runs, sport>>
    /\ UNCHANGED main_vars

(* The end of run(): extend_post_market, then return *)
run_return ==
    /\ pc = "run"
    /\ i = Len(marketdata)
    /\ LET post == extend_post_market(metadata, sport)
       IN  /\ metadata' = post.metadata
           /\ pc' = IF post.raised THEN "failed" ELSE "done"
           /\ runs' = IF post.raised THEN runs
                      ELSE Append(runs, [metadata |-> post.metadata, ladders |-> ladders,
                                         ts_marketdata |-> ts_marketdata])
    /\ UNCHANGED <<marketdata, runner_ids, current_ladder, ladders, in_play_start,
                   in_play_end, pre0ladder, pre5ladder, pre10ladder, i, ts_marketdata,
                   sport>>
    /\ UNCHANGED main_vars

\* mutant of new_ladders: the list of snapshots belongs to the class and is shared
\* by the builders
ladders_of_the_class == ladders

\* self.ladders = [] of a builder that is constructed
new_ladders == <<>>

(* A second LadderBuilder(marketdata, market_definition, meta_builder) is          *)
(* constructed on an equal stream of packets with the same sport once run() has    *)
(* returned: every attribute is set anew by __init__, and run() starts with an     *)
(* empty list of raw packets                                                       *)
rerun ==
    /\ pc = "done"
    /\ Len(runs) < 2
    /\ runner_ids' = get_runner_ids(get_market_definition(marketdata))
    /\ current_ladder' = create_ladder_ds(runner_ids')
    /\ ladders' = new_ladders
    /\ in_play_start' = get_in_play_start_pt(marketdata)
    /\ in_play_end' = get_in_play_end_pt(marketdata)
    /\ pre0ladder' = <<>>
    /\ pre5ladder' = <<>>
    /\ pre10ladder' = <<>>
    /\ metadata' = initial_metadata(marketdata, in_play_start', in_play_end')
    /\ i' = 0
    /\ pc' = "run"
    /\ ts_marketdata' = <<>>
    /\ UNCHANGED <<marketdata, runs, sport>>
    /\ UNCHANGED main_vars

(* One iteration of the loop of run() on a packet that carries its market change *)
run_packet ==
    /\ pc = "run"
    /\ i < Len(marketdata)
    /\ run_iteration(marketdata[i + 1].mc)

-----------------------------------------------------------------------------
(* The pipeline: main() and run() of exchange/main.py, MongoDB of exchange/mongo.py. *)
(* A file is [is_market_file, decompresses, definition, market, event, mc]:        *)
(* whether its key names a market file, whether its content decompresses, the      *)
(* marketType and countryCode keys of its first market definition (a function on   *)
(* the keys that are present), its market and event ids, and per packet the        *)
(* length of the mc list (None when the packet has no mc key).  A string that a    *)
(* regex looks into is the sequence of its characters.  A ladder or raw-marketdata *)
(* document is <<f, j>>: packet j of file f; a metadata document is [id, file].    *)

\* the strings the filters name
MATCH_ODDS == <<"M", "A", "T", "C", "H", "_", "O", "D", "D", "S">>
OVER == <<"O", "V", "E", "R">>
UNDER == <<"U", "N", "D", "E", "R">>
_OU_ == <<"_", "O", "U", "_">>
WIN == <<"W", "I", "N">>
EACH_WAY == <<"E", "A", "C", "H", "_", "W", "A", "Y">>
GB == <<"G", "B">>
IE == <<"I", "E">>

\* regex.search of ^literal$: the string is the literal, or the literal and a
\* final newline
anchored(literal, string) == string = literal \/ string = literal \o <<"\n">>

\* regex.search(MarketFilters.<sport>.value, market_type) finds a match
market_regex(filter, market_type) ==
    IF filter = "football"
    THEN \/ anchored(MATCH_ODDS, market_type)
         \/ occurs(OVER, market_type)
         \/ occurs(UNDER, market_type)
         \/ occurs(_OU_, market_type)
    ELSE IF filter = "tennis" THEN anchored(MATCH_ODDS, market_type)
    ELSE anchored(WIN, market_type) \/ anchored(EACH_WAY, market_type)

\* regex.search(CountryFilters.<sport>.value, country_code) finds a match; .* matches
\* every string
country_regex(filter, country_code) ==
    IF filter = "horseracing" THEN occurs(GB, country_code) \/ occurs(IE, country_code)
    ELSE TRUE

\* mutant of get: a missing key counts as GB
get_or_GB(market_definition, key) ==
    IF key \in DOMAIN market_definition THEN market_definition[key] ELSE GB

\* market_definition.get(key, "")
get(market_definition, key) ==
    IF key \in DOMAIN market_definition THEN market_definition[key] ELSE <<>>

\* mutant of is_matching_filters: the country is not looked at
is_matching_filters_market_only(market_definition, market_filter, country_filter) ==
    market_regex(market_filter, get(market_definition, "marketType"))

\* betfair_utils.is_matching_filters on the first market definition of the file
is_matching_filters(market_definition, market_filter, country_filter) ==
    /\ market_regex(market_filter, get(market_definition, "marketType"))
    /\ country_regex(country_filter, get(market_definition, "countryCode"))

\* betfair_utils.get_market_definition: marketdata[0]["mc"][0] raises KeyError when
\* the first packet has no mc and IndexError when its mc is empty
get_market_definition_raises(file) == file.mc[1] = None \/ file.mc[1] = 0

\* mutant of well_formed: any mc list passes
well_formed_always(mc_len) == TRUE

\* process_packet: packet["mc"], mc[0] and assert len(mc) == 1 all pass
well_formed(mc_len) == mc_len # None /\ mc_len # 0 /\ mc_len = 1

\* LadderBuilder(...).run() raises: process_packet is called on every packet
builder_raises(file) == \E j \in 1..Len(file.mc) : ~well_formed(file.mc[j])

\* where the first part of run() leaves the call: main.py lines 23 to 33
build(file, filters) ==
    IF ~file.is_market_file THEN "returned"
    ELSE IF ~file.decompresses THEN "returned"
    ELSE IF get_market_definition_raises(file) THEN "raised"
    ELSE IF ~is_matching_filters(file.definition, filters, filters) THEN "returned"
    ELSE IF builder_raises(file) THEN "raised"
    ELSE "built"

\* the _id of the metadata document of a market
metadata_id(file) == <<"metadata", file.market, file.event>>

\* collection.insert_one raises DuplicateKeyError: the _id is in the collection
is_duplicate(collection, id) == \E doc \in collection : doc.id = id

\* mutant of metadata_duplicated: the result of the metadata insert is not looked at
metadata_duplicated_never(result) == FALSE

\* isinstance(metadata_duplicated, DuplicateKeyError) in insert_many
metadata_duplicated(result) == result = "DuplicateKeyError"

\* the documents run() hands to insert_many for file f: one per packet
documents(f) == {<<f, j>> : j \in 1..Len(files[f].mc)}

\* a call of run() is over
Over == {"returned", "raised"}

(* main: the loop takes the next file; it calls run() when sequential, which it   *)
(* does once the call before has returned, and submits run() to the executor when *)
(* is_multiprocess                                                                *)
main_loop ==
    /\ main_pc = "loop"
    /\ next_file < Len(files)
    /\ IF is_multiprocess \/ next_file = 0 THEN TRUE ELSE run_pc[next_file] = "returned"
    /\ next_file' = next_file + 1
    /\ run_pc' = [run_pc EXCEPT ![next_file + 1] = "start"]
    /\ UNCHANGED <<files, is_multiprocess, result_meta, db, batches, main_pc>>
    /\ UNCHANGED builder_vars

(* run(): from the file key to the return value of LadderBuilder(...).run(); an   *)
(* exception leaves run() and, when main called run() itself, main                *)
run_build(f) ==
    /\ run_pc[f] = "start"
    /\ run_pc' = [run_pc EXCEPT ![f] = build(files[f], sport)]
    /\ main_pc' = IF build(files[f], sport) = "raised" /\ ~is_multiprocess
                  THEN "raised" ELSE main_pc
    /\ UNCHANGED <<files, is_multiprocess, next_file, result_meta, db, batches>>
    /\ UNCHANGED builder_vars

(* run(): result_meta = mongodb.insert_one(Collections.Metadata, metadata) *)
insert_one(f) ==
    /\ run_pc[f] = "built"
    /\ IF is_duplicate(db.metadata, metadata_id(files[f]))
       THEN /\ result_meta' = [result_meta EXCEPT ![f] = "DuplicateKeyError"]
            /\ db' = db
       ELSE /\ result_meta' = [result_meta EXCEPT ![f] = "InsertOneResult"]
            /\ db' = [db EXCEPT !.metadata = @ \cup {[id |-> metadata_id(files[f]),
                                                      file |-> f]},
                                 !.collections = @ \cup {"metadata"}]
    /\ run_pc' = [run_pc EXCEPT ![f] = "meta"]
    /\ UNCHANGED <<files, is_multiprocess, next_file, batches, main_pc>>
    /\ UNCHANGED builder_vars

\* the size from which insert_many inserts in batches, and the size of a batch
BatchSize == 1000

\* len(data) of the insert_many calls of file f
data_len(f) == Len(files[f].mc)

\* len(range(0, len(data), 1000)): the number of batches insert_many submits
number_of_batches(len) == (len + BatchSize - 1) \div BatchSize

\* data[i:i+1000] of the k-th round of the loop, i = 1000 * (k - 1)
batch(f, k) ==
    {<<f, j>> : j \in (BatchSize * (k - 1) + 1)..Min(BatchSize * k, data_len(f))}

\* where run() stands after the insert_many call on the collection has returned
after_insert_many(collection) == IF collection = "ladders" THEN "ladders" ELSE "returned"

\* no insert_many call of the file is in progress
no_batches == [collection |-> "none", submitted |-> 0, completed |-> {}]

\* where run() stands when it calls insert_many on the collection
before_insert_many(collection) == IF collection = "ladders" THEN "meta" ELSE "ladders"

\* where run() stands in insert_many between list_collection_names(), which did not
\* name the collection, and create_collection
creating(collection) ==
    IF collection = "ladders" THEN "create_ladders" ELSE "create_marketdata"

\* insert_many from self.db[collection.value] on, with the store as it is then: one
\* insert below 1000 documents, and the executor of the batches from 1000
\* documents on
insert_data(f, collection, store) ==
    IF data_len(f) < BatchSize
    THEN /\ db' = [store EXCEPT ![collection] = @ \cup documents(f)]
         /\ run_pc' = [run_pc EXCEPT ![f] = after_insert_many(collection)]
         /\ batches' = batches
    ELSE /\ db' = store
         /\ run_pc' = [run_pc EXCEPT ![f] = before_insert_many(collection)]
         /\ batches' = [batches EXCEPT ![f] = [collection |-> collection,
                                               submitted |-> 0, completed |-> {}]]

(* run(): mongodb.insert_many(collection, documents, result_meta, type="ts") for   *)
(* the ladders and then for the raw marketdata: nothing when the metadata was a    *)
(* duplicate; otherwise list_collection_names() is read, and the call goes on to   *)
(* create_collection when the collection is not named and to the insert when it is *)
insert_many(f, collection) ==
    /\ run_pc[f] = before_insert_many(collection)
    /\ batches[f] = no_batches
    /\ IF metadata_duplicated(result_meta[f])
       THEN /\ db' = db
            /\ run_pc' = [run_pc EXCEPT ![f] = after_insert_many(collection)]
            /\ batches' = batches
       ELSE IF collection \notin db.collections
       THEN /\ db' = db
            /\ run_pc' = [run_pc EXCEPT ![f] = creating(collection)]
            /\ batches' = batches
       ELSE insert_data(f, collection, db)
    /\ UNCHANGED <<files, is_multiprocess, next_file, result_meta, main_pc>>
    /\ UNCHANGED builder_vars

(* insert_many: self.db.create_collection(collection.value, timeseries=...) and    *)
(* the rest of the call; create_collection raises CollectionInvalid when the       *)
(* collection exists by now, which leaves run() and, when main called run()        *)
(* itself, main                                                                    *)
create_collection(f, collection) ==
    /\ run_pc[f] = creating(collection)
    /\ IF collection \in db.collections
       THEN /\ db' = db
            /\ run_pc' = [run_pc EXCEPT ![f] = "raised"]
            /\ batches' = batches
            /\ main_pc' = IF is_multiprocess THEN main_pc ELSE "raised"
       ELSE /\ insert_data(f, collection, [db EXCEPT !.collections = @ \cup {collection}])
            /\ main_pc' = main_pc
    /\ UNCHANGED <<files, is_multiprocess, next_file, result_meta>>
    /\ UNCHANGED builder_vars

(* insert_many, one round of the loop: executor.submit(collection.insert_many,     *)
(* data[i:i+1000], ordered=False)                                                  *)
submit_batch(f) ==
    /\ batches[f].collection # "none"
    /\ batches[f].submitted < number_of_batches(data_len(f))
    /\ batches' = [batches EXCEPT ![f].submitted = @ + 1]
    /\ UNCHANGED <<files, is_multiprocess, next_file, run_pc, result_meta, db, main_pc>>
    /\ UNCHANGED builder_vars

(* a thread of the executor: collection.insert_many of the k-th batch *)
batch_insert(f, k) ==
    /\ batches[f].collection # "none"
    /\ k \in (1..batches[f].submitted) \ batches[f].completed
    /\ db' = [db EXCEPT ![batches[f].collection] = @ \cup batch(f, k)]
    /\ batches' = [batches EXCEPT ![f].completed = @ \cup {k}]
    /\ UNCHANGED <<files, is_multiprocess, next_file, run_pc, result_meta, main_pc>>
    /\ UNCHANGED builder_vars

\* mutant of batches_done: only the batch submitted last is waited for
batches_done_last(completed, len) == number_of_batches(len) \in completed

\* result = future.result() on the batch submitted last and the end of the with
\* block, which waits for every submitted batch
batches_done(completed, len) == completed = 1..number_of_batches(len)

(* insert_many returns from the executor *)
insert_many_return(f) ==
    /\ batches[f].collection # "none"
    /\ batches[f].submitted = number_of_batches(data_len(f))
    /\ batches_done(batches[f].completed, data_len(f))
    /\ run_pc' = [run_pc EXCEPT ![f] = after_insert_many(batches[f].collection)]
    /\ batches' = [batches EXCEPT ![f] = no_batches]
    /\ UNCHANGED <<files, is_multiprocess, next_file, result_meta, db, main_pc>>
    /\ UNCHANGED builder_vars

(* main, is_multiprocess: result = future.result() on the future submitted last *)
main_result ==
    /\ is_multiprocess
    /\ main_pc = "loop"
    /\ next_file = Len(files)
    /\ run_pc[Len(files)] \in Over
    /\ main_pc' = IF run_pc[Len(files)] = "raised" THEN "exit_raised" ELSE "exit"
    /\ UNCHANGED <<files, is_multiprocess, next_file, run_pc, result_meta, db, batches>>
    /\ UNCHANGED builder_vars

\* mutant of executor_exit: the with block is left without waiting
executor_exit_nowait == TRUE

\* the end of the with block of the executor: shutdown(wait=True) returns when every
\* submitted call of run() is over
executor_exit == \A f \in 1..Len(files) : run_pc[f] \in Over

(* main returns: after the last call of run() when sequential; when is_multiprocess *)
(* at the end of the with block, which waits for every submitted call               *)
main_exit ==
    /\ IF is_multiprocess
       THEN /\ main_pc \in {"exit", "exit_raised"}
            /\ executor_exit
            /\ main_pc' = IF main_pc = "exit_raised" THEN "raised" ELSE "done"
       ELSE /\ main_pc = "loop"
            /\ next_file = Len(files)
            /\ run_pc[Len(files)] = "returned"
            /\ main_pc' = "done"
    /\ UNCHANGED <<files, is_multiprocess, next_file, run_pc, result_meta, db, batches>>
    /\ UNCHANGED builder_vars

\* no LadderBuilder is looked at: the pipeline sees run() only through build
NoBuilder ==
    /\ marketdata = <<>>
    /\ runner_ids = <<>>
    /\ current_ladder = <<>>
    /\ ladders = <<>>
    /\ in_play_start = None
    /\ in_play_end = None
    /\ pre0ladder = <<>>
    /\ pre5ladder = <<>>
    /\ pre10ladder = <<>>
    /\ metadata = <<>>
    /\ i = 0
    /\ pc = "idle"
    /\ ts_marketdata = <<>>
    /\ runs = <<>>

(* The state when main enters its loop *)
InitMainWith(listing, multiprocess, filters) ==
    /\ NoBuilder
    /\ sport = filters
    /\ batches = [f \in 1..Len(listing) |-> no_batches]
    /\ files = listing
    /\ is_multiprocess = multiprocess
    /\ next_file = 0
    /\ run_pc = [f \in 1..Len(listing) |-> "waiting"]
    /\ result_meta = [f \in 1..Len(listing) |-> "none"]
    /\ db = empty_db
    /\ main_pc = "loop"

-----------------------------------------------------------------------------
(* Inputs *)

MarketId == "1.1"
EventId == "E1"

RunnerDef(id, name, status, bsp) == [id |-> id, name |-> name, status |-> status, bsp |-> bsp]

ActiveRunners == <<RunnerDef(1, "A", "ACTIVE", 0), RunnerDef(2, "B", "ACTIVE", 0)>>
SettledRunners == <<RunnerDef(1, "A", "LOSER", 50), RunnerDef(2, "B", "WINNER", 30)>>

\* the name of the markets that are not looked at for their name
MarketName == <<"1", "m", " ", "H", "c", "a", "p">>

\* a market definition with its marketType and name
NamedDef(inPlay, runners, marketType, name) ==
    [present |-> TRUE, inPlay |-> inPlay, eventId |-> EventId, runners |-> runners,
     marketType |-> marketType, name |-> name]

Def(inPlay, runners) == NamedDef(inPlay, runners, WIN, MarketName)
NoDef ==
    [present |-> FALSE, inPlay |-> FALSE, eventId |-> EventId, runners |-> <<>>,
     marketType |-> WIN, name |-> MarketName]

\* a packet with its clk and op fields
Packet(pt, md) == [pt |-> pt, id |-> MarketId, md |-> md, clk |-> "clk", op |-> "mcm"]

RunnerChange(id, atb, atl, trd, ltp, tv) ==
    [id |-> id, atb |-> atb, atl |-> atl, trd |-> trd, ltp |-> ltp, tv |-> tv]

Rc(changes) == [has_rc |-> TRUE, rc |-> changes]
NoRc == [has_rc |-> FALSE, rc |-> <<>>]

Level(p, s) == << <<p, s>> >>

\* a file of n packets one second apart: the definition first, packets without a
\* definition, and the definition of the settled, in-play market last
BookStream(n) ==
    [j \in 1..n |->
        Packet(j * 1000,
               IF j = 1 THEN Def(FALSE, ActiveRunners)
               ELSE IF j = n THEN Def(TRUE, SettledRunners)
               ELSE NoDef)]

(* Inputs of Spec: quotes and trades around the prices 1, 2 and 3 *)

QuoteChanges ==
    {RunnerChange(1, Level(p, 10), <<>>, <<>>, 0, 0) : p \in {1, 2}}
    \cup {RunnerChange(1, <<>>, Level(p, 10), <<>>, 0, 0) : p \in {2, 3}}

TrdUpdates ==
    {Level(p, 10) : p \in {1, 2, 3}}
    \cup {Level(2, 16), Level(2, 4), Level(2, 10) \o Level(2, 10)}

TradeChanges ==
    {RunnerChange(1, <<>>, <<>>, t, 0, 0) : t \in TrdUpdates}
    \cup {RunnerChange(1, Level(3, 10), <<>>, Level(2, 10), 2, 10),
          RunnerChange(1, <<>>, Level(1, 10), Level(2, 10), 2, 10)}

OtherChanges ==
    {RunnerChange(2, Level(2, 10), <<>>, <<>>, 0, 0),
     RunnerChange(2, <<>>, <<>>, Level(2, 10), 2, 10),
     RunnerChange(3, Level(2, 10), <<>>, <<>>, 0, 0)}

RepeatedChanges ==
    {<<RunnerChange(1, <<>>, <<>>, Level(2, 10), 0, 0), c>> :
        c \in {RunnerChange(1, <<>>, <<>>, Level(2, 16), 0, 0)} \cup OtherChanges}

MarketChanges ==
    {NoRc, Rc(<<>>)}
    \cup {Rc(<<c>>) : c \in QuoteChanges \cup TradeChanges \cup OtherChanges}
    \cup {Rc(cs) : cs \in RepeatedChanges}

(* Inputs of SpecLadder: additions, removals and reorderings of price levels, and *)
(* an update that carries one level more than the ladders keep                    *)

WideUpdate == [p \in 1..(TopN + 1) |-> <<p, 10>>]

LadderUpdates ==
    {Level(1, 10), Level(2, 20), Level(2, 0), Level(2, -10),
     Level(1, 10) \o Level(3, 10), Level(3, 10) \o Level(1, 20),
     Level(TopN + 2, 10), WideUpdate}

LadderChanges ==
    {RunnerChange(1, u, <<>>, <<>>, 0, 0) : u \in LadderUpdates}
    \cup {RunnerChange(1, <<>>, u, <<>>, 0, 0) : u \in LadderUpdates}
    \cup {RunnerChange(1, <<>>, <<>>, u, 0, 0) : u \in {Level(2, 10), Level(2, 0), Level(1, 4)}}
    \cup {RunnerChange(2, WideUpdate, Level(2, 10), <<>>, 0, 0)}

LadderMarketChanges == {NoRc} \cup {Rc(<<c>>) : c \in LadderChanges}

(* Inputs of SpecPre: files of up to MaxPrePackets packets in chronological order, *)
(* with pts around an in-play start at 1 000 000 ms; any packet may carry a        *)
(* definition, the first and the last always do; the k-th packet quotes size 10 k   *)
(* at price 1, so that every snapshot differs from the others                      *)

MaxPrePackets == 4

PtValues == {400000, 500001, 700000, 999000, 999500, 1000000}

PrePts(n) == {pts \in [1..n -> PtValues] : \A j \in 1..(n - 1) : pts[j] <= pts[j + 1]}

PreDefs(n) ==
    {md \in [1..n -> {"none", "pre", "inplay"}] : md[1] # "none" /\ md[n] # "none"}

PreDef(kind, last) ==
    IF kind = "none" THEN NoDef
    ELSE Def(kind = "inplay", IF last THEN SettledRunners ELSE ActiveRunners)

PreStream(pts, md) ==
    [j \in 1..Len(pts) |-> Packet(pts[j], PreDef(md[j], j = Len(pts)))]

PreMarketChanges(k) ==
    {NoRc, Rc(<<RunnerChange(1, Level(1, 10 * k), <<>>, <<>>, 0, 0)>>)}

(* Inputs of SpecPost: a file of two packets whose last definition settles up to   *)
(* MaxRunners runners; each runner wins or loses and has a bsp of 30, of 50 or     *)
(* none (0)                                                                        *)

MaxRunners == 3

RunnerName(j) == "N" \o ToString(j)

PostStatuses(n) == [1..n -> {"WINNER", "LOSER"}]

PostBsps(n) == [1..n -> {0, 30, 50}]

PostRunners(status, bsp) ==
    [j \in 1..Len(status) |-> RunnerDef(j, RunnerName(j), status[j], bsp[j])]

PostRoster(n) == [j \in 1..n |-> RunnerDef(j, RunnerName(j), "ACTIVE", 0)]

PostStream(runners) ==
    <<Packet(1000, Def(FALSE, PostRoster(Len(runners)))), Packet(2000, Def(TRUE, runners))>>

PostMarketChanges == {Rc(<<>>), Rc(<<RunnerChange(1, Level(2, 10), <<>>, <<>>, 0, 0)>>)}

(* Inputs of SpecTrd: runner changes of runner 1 that carry cumulative traded sizes  *)
(* at the prices 2 and 3 (rising, falling, repeated, zero), and runner changes that *)
(* carry ltp and tv: a value, 0, or no key (None)                                  *)

TrdLists ==
    {Level(2, 10), Level(2, 16), Level(2, 4), Level(2, 0),
     Level(2, 10) \o Level(3, 10), Level(3, 4) \o Level(3, 10), Level(2, 4) \o Level(2, 16)}

ScalarPairs == {<<2, 10>>, <<3, None>>, <<0, 20>>, <<None, 0>>}

TrdMarketChanges ==
    {Rc(<<RunnerChange(1, <<>>, <<>>, t, None, None)>>) : t \in TrdLists}
    \cup {Rc(<<RunnerChange(1, <<>>, <<>>, <<>>, v[1], v[2])>>) : v \in ScalarPairs}

(* Inputs of SpecMain: up to MaxFiles files of two markets; a file is well formed, *)
(* is skipped by one of the early returns of run(), or has one packet whose mc is   *)
(* missing, empty or of length 2, in the first packet or in a later one            *)

MaxFiles == 3

File(is_market_file, decompresses, definition, market, mc) ==
    [is_market_file |-> is_market_file, decompresses |-> decompresses,
     definition |-> definition, market |-> market, event |-> EventId, mc |-> mc]

PLACE == <<"P", "L", "A", "C", "E">>

FilterKeys(marketType, countryCode) ==
    [marketType |-> marketType, countryCode |-> countryCode]

GoodFiles ==
    {File(TRUE, TRUE, FilterKeys(WIN, GB), market, <<1, 1>>) : market \in {"1.1", "1.2"}}

SkippedFiles ==
    {File(FALSE, TRUE, FilterKeys(WIN, GB), "1.1", <<1, 1>>),
     File(TRUE, FALSE, FilterKeys(WIN, GB), "1.1", <<1, 1>>),
     File(TRUE, TRUE, FilterKeys(PLACE, GB), "1.1", <<1, 1>>)}

MalformedFiles ==
    {File(TRUE, TRUE, FilterKeys(WIN, GB), "1.1", mc) :
        mc \in {<<1, None>>, <<0, 1>>, <<1, 2>>, <<2, 1>>}}

FileKinds == GoodFiles \cup SkippedFiles \cup MalformedFiles

-----------------------------------------------------------------------------
(* Specifications *)

Init == \E n \in 1..MaxPackets : InitWith(BookStream(n))

Next == (\E market_change \in MarketChanges : run_iteration(market_change)) \/ run_return

Spec == Init /\ [][Next]_vars

NextLadder ==
    (\E market_change \in LadderMarketChanges : run_iteration(market_change)) \/ run_return

SpecLadder == Init /\ [][NextLadder]_vars

InitPre ==
    \E n \in 1..MaxPrePackets :
        \E pts \in PrePts(n), md \in PreDefs(n) : InitWith(PreStream(pts, md))

NextPre ==
    (\E market_change \in PreMarketChanges(i + 1) : run_iteration(market_change))
    \/ run_return

SpecPre == InitPre /\ [][NextPre]_vars

InitPost ==
    \E n \in 1..MaxRunners :
        \E status \in PostStatuses(n), bsp \in PostBsps(n) :
            InitWith(PostStream(PostRunners(status, bsp)))

NextPost ==
    (\E market_change \in PostMarketChanges : run_iteration(market_change)) \/ run_return

SpecPost == InitPost /\ [][NextPost]_vars

NextTrd ==
    (\E market_change \in TrdMarketChanges : run_iteration(market_change)) \/ run_return

SpecTrd == Init /\ [][NextTrd]_vars

InitMain ==
    \E n \in 1..MaxFiles :
        \E listing \in [1..n -> FileKinds], multiprocess \in BOOLEAN :
            InitMainWith(listing, multiprocess, "horseracing")

NextMain ==
    \/ main_loop
    \/ \E f \in 1..Len(files) : run_build(f)
    \/ \E f \in 1..Len(files) : insert_one(f)
    \/ \E f \in 1..Len(files) : \E collection \in {"ladders", "marketdata"} :
           insert_many(f, collection)
    \/ \E f \in 1..Len(files) : \E collection \in {"ladders", "marketdata"} :
           create_collection(f, collection)
    \/ main_result
    \/ main_exit

SpecMain == InitMain /\ [][NextMain]_vars

\* the sports main can be started for
Sports == {"football", "tennis", "horseracing"}

(* Two runs on equal streams: every packet carries its market change, and a second *)
(* builder runs on the stream after the first has returned                         *)
DetMarketChanges ==
    {Rc(<<>>),
     Rc(<<RunnerChange(1, Level(1, 10), Level(3, 10), <<>>, 0, 0)>>),
     Rc(<<RunnerChange(1, <<>>, <<>>, Level(2, 10), 2, 10)>>),
     Rc(<<RunnerChange(2, Level(2, 10), <<>>, Level(2, 16), 2, 16)>>)}

DetStream(changes) ==
    [j \in 1..Len(changes) |-> BookStream(Len(changes))[j] @@ [mc |-> changes[j]]]

InitDet ==
    \E n \in 1..MaxPackets :
        \E changes \in [1..n -> DetMarketChanges], meta_builder \in Sports :
            InitBuilder(DetStream(changes), meta_builder)

NextDet == run_packet \/ run_return \/ rerun

SpecDet == InitDet /\ [][NextDet]_vars

(* The sport hooks: a file of two packets whose first and last definitions carry a *)
(* marketType each and whose last definition carries the name of the market       *)
HookMarketTypes == {WIN, EACH_WAY, MATCH_ODDS}

HookNames ==
    {<<"2", "m", "4", "f", " ", "N", "o", "v", " ", "H", "r", "d">>,
     <<"3", "m", " ", "H", "c", "a", "p", " ", "C", "h", "s">>,
     <<"2", "m", " ", "C", "h", "a", "s", "e", " ", "H", "u", "r", "d", "l", "e">>,
     <<"2", "m", " ", "I", "N", "H", "F", " ", "C", "h", "s">>,
     <<"2", "m", " ", "I", "N", "H", "F">>,
     <<"5", "f", " ", "H", "c", "a", "p">>,
     <<"1", "m", "2", "f", " ", "H", "a", "n", "d", "i", "c", "a", "p">>,
     <<"M", "d", "n", " ", "S", "t", "k", "s">>,
     <<"1", "2", "f", " ", "H", "u", "r", "d", "l", "e">>,
     <<"m", "5", "f", " ", "I", "N", "H", "F", " ", "H", "r", "d">>}

HookStream(first, final, name) ==
    <<Packet(1000, NamedDef(FALSE, ActiveRunners, first, MarketName)),
      Packet(2000, NamedDef(TRUE, SettledRunners, final, name))>>

InitHook ==
    \E meta_builder \in Sports, first \in {WIN, EACH_WAY}, final \in HookMarketTypes,
       name \in HookNames :
        InitBuilder(HookStream(first, final, name), meta_builder)

NextHook == (\E market_change \in {Rc(<<>>)} : run_iteration(market_change)) \/ run_return

SpecHook == InitHook /\ [][NextHook]_vars

(* Rosters: the definitions of a file list different runners; the runner changes  *)
(* name runner 1, which every roster lists                                        *)
Rosters == {<<1, 2>>, <<1>>, <<1, 2, 3>>, <<3, 1>>}

RosterDef(ids) ==
    IF ids = <<>> THEN NoDef
    ELSE Def(FALSE, [j \in 1..Len(ids) |-> RunnerDef(ids[j], RunnerName(ids[j]), "ACTIVE", 0)])

RosterStream(ids) == [j \in 1..Len(ids) |-> Packet(j * 1000, RosterDef(ids[j]))]

RosterMarketChanges ==
    {Rc(<<>>),
     Rc(<<RunnerChange(1, Level(2, 10), <<>>, <<>>, 0, 0)>>),
     Rc(<<RunnerChange(1, <<>>, <<>>, <<>>, 2, 0)>>)}

InitRoster ==
    \E n \in 1..MaxPackets :
        \E ids \in [1..n -> Rosters \cup {<<>>}] :
            /\ ids[1] # <<>>
            /\ ids[n] # <<>>
            /\ InitWith(RosterStream(ids))

NextRoster ==
    (\E market_change \in RosterMarketChanges : run_iteration(market_change)) \/ run_return

SpecRoster == InitRoster /\ [][NextRoster]_vars

(* Raw packets: every packet carries its market change, and may arrive without its *)
(* clk field, without its op field or without both                                 *)
RawMarketChanges ==
    {Rc(<<>>), Rc(<<RunnerChange(1, Level(1, 10), Level(3, 10), Level(2, 10), 2, 10)>>)}

PacketWithout(packet, keys) == [k \in DOMAIN packet \ keys |-> packet[k]]

RawStream(changes, missing) ==
    [j \in 1..Len(changes) |-> PacketWithout(DetStream(changes)[j], missing[j])]

InitRaw ==
    \E n \in 1..MaxPackets :
        \E changes \in [1..n -> RawMarketChanges], missing \in [1..n -> SUBSET {"clk", "op"}] :
            InitBuilder(RawStream(changes, missing), "football")

NextRaw == run_packet \/ run_return

SpecRaw == InitRaw /\ [][NextRaw]_vars

(* The filters: every sport against market definitions whose marketType and        *)
(* countryCode match, do not match, hold the filter's words inside longer ones, or  *)
(* are missing                                                                      *)
MaxFilterFiles == 1

FilterMarketTypes ==
    {WIN, EACH_WAY, MATCH_ODDS, PLACE,
     <<"T", "O", "_">> \o WIN,
     <<"H", "T">> \o _OU_ \o <<"1">>,
     <<"G", "O", "A", "L", "S", "_">> \o OVER,
     <<"C", "A", "R", "D", "S", "_">> \o UNDER,
     MATCH_ODDS \o <<"_", "U", "N", "M">>}

FilterCountryCodes == {GB, IE, <<"U", "S">>, <<>>}

FilterDefinitions ==
    UNION {[keys -> FilterMarketTypes \cup FilterCountryCodes] :
               keys \in SUBSET {"marketType", "countryCode"}}

FilterFiles ==
    {File(TRUE, TRUE, definition, "1.1", <<1, 1>>) :
        definition \in {d \in FilterDefinitions :
                           /\ "marketType" \in DOMAIN d => d.marketType \in FilterMarketTypes
                           /\ "countryCode" \in DOMAIN d => d.countryCode \in FilterCountryCodes}}

InitFilter ==
    \E n \in 1..MaxFilterFiles :
        \E listing \in [1..n -> FilterFiles], multiprocess \in BOOLEAN, filters \in Sports :
            InitMainWith(listing, multiprocess, filters)

SpecFilter == InitFilter /\ [][NextMain]_vars

(* The batches: one market file whose streams are below, at and above the batch   *)
(* size and its multiples                                                         *)
BatchLens ==
    {BatchSize - 1, BatchSize, BatchSize + 1, 2 * BatchSize - 1, 2 * BatchSize,
     2 * BatchSize + 1, 3 * BatchSize}

InitBatch ==
    \E len \in BatchLens, multiprocess \in BOOLEAN :
        InitMainWith(<<File(TRUE, TRUE, FilterKeys(WIN, GB), "1.1", [j \in 1..len |-> 1])>>,
                     multiprocess, "horseracing")

NextBatch ==
    \/ NextMain
    \/ \E f \in 1..Len(files) : submit_batch(f)
    \/ \E f \in 1..Len(files) : \E k \in 1..number_of_batches(data_len(f)) : batch_insert(f, k)
    \/ \E f \in 1..Len(files) : insert_many_return(f)

SpecBatch == InitBatch /\ [][NextBatch]_vars

-----------------------------------------------------------------------------
(* Vocabulary of the properties *)

Sides == {"atb", "atl", "trd"}

\* the prices of a ladder, in the order in which it holds them
Prices(ladder) == [j \in 1..Len(ladder) |-> ladder[j][1]]

StrictlyDescending(ps) == \A j \in 1..(Len(ps) - 1) : ps[j] > ps[j + 1]
StrictlyAscending(ps) == \A j \in 1..(Len(ps) - 1) : ps[j] < ps[j + 1]

\* the price a string key of an emitted trd mapping stands for
PriceOf(key) == CHOOSE p \in 0..(2 * TopN + 2) : ToString(p) = key

\* a field of an emitted runner, or the given value when the field is absent
Field(runner, key, absent) == IF key \in DOMAIN runner THEN runner[key] ELSE absent

HighestPrice(ladder) ==
    CHOOSE p \in Range(Prices(ladder)) : \A q \in Range(Prices(ladder)) : p >= q
LowestPrice(ladder) ==
    CHOOSE p \in Range(Prices(ladder)) : \A q \in Range(Prices(ladder)) : p <= q

RECURSIVE SumVolumes(_)
SumVolumes(trades) ==
    IF trades = <<>> THEN 0 ELSE Head(trades)[2] + SumVolumes(Tail(trades))

-----------------------------------------------------------------------------
(* C1: after any sequence of packets, every runner of the roster holds at most 10   *)
(* levels in atb and at most 10 in atl, and every size in atb, atl and trd is > 0.  *)
C1_LaddersCappedAndPositive ==
    \A r \in DOMAIN current_ladder :
        /\ Len(current_ladder[r].atb) <= 10
        /\ Len(current_ladder[r].atl) <= 10
        /\ \A side \in Sides :
               \A j \in 1..Len(current_ladder[r][side]) : current_ladder[r][side][j][2] > 0

\* a runner whose atb is full after an update of 11 levels (price 1 was cut off), and
\* whose atl level at price 2, emitted in the first snapshot, has since been removed
C1_Witness ==
    /\ Len(ladders) >= 1
    /\ "atl" \in DOMAIN ladders[1].runners["1"]
    /\ HasKey(ladders[1].runners["1"].atl, 2)
    /\ current_ladder["1"].atl = <<>>
    /\ Len(current_ladder["1"].atb) = 10
    /\ ~HasKey(current_ladder["1"].atb, 1)

(* C2: in every emitted snapshot, for every runner, the atb pairs are in strictly   *)
(* descending price order, the atl pairs in strictly ascending price order and the  *)
(* trd entries in ascending price order, whatever the order of arrival.             *)
C2_SnapshotsSorted ==
    \A k \in 1..Len(ladders) :
        \A r \in DOMAIN ladders[k].runners :
            LET runner == ladders[k].runners[r]
                trd == Field(runner, "trd", <<>>)
            IN  /\ StrictlyDescending(Prices(Field(runner, "atb", <<>>)))
                /\ StrictlyAscending(Prices(Field(runner, "atl", <<>>)))
                /\ StrictlyAscending([j \in 1..Len(trd) |-> PriceOf(trd[j][1])])

\* a snapshot whose atb levels arrived lowest price first and whose atl levels
\* arrived highest price first
C2_Witness ==
    \E k \in 1..Len(ladders) :
        LET runner == ladders[k].runners["1"]
        IN  /\ Field(runner, "atb", <<>>) = << <<3, 10>>, <<1, 10>> >>
            /\ Field(runner, "atl", <<>>) = << <<1, 20>>, <<3, 10>> >>

(* C3: at the end of each iteration of run, for every runner of the roster, bbp is  *)
(* the highest price of its atb ladder, or 0 when atb is empty, and blp is the      *)
(* lowest price of its atl ladder, or +infinity when atl is empty.                  *)
C3_BestPricesFollowLadders ==
    pc # "failed" =>
        \A r \in DOMAIN current_ladder :
            LET l == current_ladder[r]
            IN  /\ l.bbp = IF l.atb = <<>> THEN 0 ELSE HighestPrice(l.atb)
                /\ l.blp = IF l.atl = <<>> THEN Infinity ELSE LowestPrice(l.atl)

\* after two packets: a runner with several atb levels and an atl emptied again, and
\* another runner that the packets never named
C3_Witness ==
    /\ i >= 2
    /\ Len(current_ladder["1"].atb) >= 2
    /\ current_ladder["1"].bbp = 3
    /\ "atl" \in DOMAIN ladders[1].runners["1"]
    /\ current_ladder["1"].atl = <<>>
    /\ current_ladder["1"].blp = Infinity
    /\ current_ladder["2"].atb = <<>>

\* the trades of runner r in snapshot k
EmittedTrades(k, r) == Field(ladders[k].runners[r], "trades", <<>>)

\* the best prices runner r had before packet k was applied: those of the ladders of
\* snapshot k - 1, or the defaults before the first packet
BbpBefore(k, r) ==
    IF k = 1 \/ "atb" \notin DOMAIN ladders[k - 1].runners[r] THEN 0
    ELSE HighestPrice(ladders[k - 1].runners[r].atb)
BlpBefore(k, r) ==
    IF k = 1 \/ "atl" \notin DOMAIN ladders[k - 1].runners[r] THEN Infinity
    ELSE LowestPrice(ladders[k - 1].runners[r].atl)

\* the sum of the volumes of the trades of runner r in the first n snapshots
RECURSIVE EmittedVolume(_, _)
EmittedVolume(n, r) ==
    IF n = 0 THEN 0 ELSE EmittedVolume(n - 1, r) + SumVolumes(EmittedTrades(n, r))

(* C4: every trade [p, d, side] of a snapshot has d > 0, and its side follows from  *)
(* the bbp and blp the runner had before the packet: "b" exactly when p <= bbp,     *)
(* otherwise "l" exactly when p >= blp, otherwise "nan".                            *)
C4_TradeSideFromPrePacketPrices ==
    \A k \in 1..Len(ladders) :
        \A r \in DOMAIN ladders[k].runners :
            \A t \in Range(EmittedTrades(k, r)) :
                /\ t[2] > 0
                /\ t[3] \in {"b", "l", "nan"}
                /\ t[3] = "b" <=> t[1] <= BbpBefore(k, r)
                /\ t[3] = "l" <=> (~(t[1] <= BbpBefore(k, r)) /\ t[1] >= BlpBefore(k, r))

\* a trade at price 2 emitted as a lay hit (blp was 2, atb was empty) in the snapshot
\* of a packet that itself brings an atb level at price 3
C4_Witness ==
    \E k \in 2..Len(ladders) :
        /\ <<2, 10, "l">> \in Range(EmittedTrades(k, "1"))
        /\ "atb" \in DOMAIN ladders[k].runners["1"]
        /\ HighestPrice(ladders[k].runners["1"].atb) = 3
        /\ BbpBefore(k, "1") = 0

(* C5: after every packet, for every runner, ttrdv equals the sum of the delta      *)
(* sizes of all trades emitted for that runner in the snapshots produced so far.    *)
C5_TtrdvIsSumOfEmittedTrades ==
    pc # "failed" =>
        \A r \in DOMAIN current_ladder :
            current_ladder[r].ttrdv = EmittedVolume(Len(ladders), r)

(* C6: for every runner, ttrdv never decreases from one snapshot to the next.       *)
C6_TtrdvNeverDecreases ==
    \A k \in 1..(Len(ladders) - 1) :
        \A r \in DOMAIN ladders[k].runners :
            Field(ladders[k].runners[r], "ttrdv", 0)
                <= Field(ladders[k + 1].runners[r], "ttrdv", 0)

\* two successive snapshots between which the cumulative size traded at price 2 fell
\* from 16 to 4 and ttrdv stayed at 20
C6_Witness ==
    \E k \in 1..(Len(ladders) - 1) :
        /\ Field(ladders[k].runners["1"], "trd", <<>>) = << <<"2", 16>> >>
        /\ Field(ladders[k + 1].runners["1"], "trd", <<>>) = << <<"2", 4>> >>
        /\ Field(ladders[k].runners["1"], "ttrdv", 0) = 20
        /\ Field(ladders[k + 1].runners["1"], "ttrdv", 0) = 20

\* the packets whose market change carries a definition with inPlay true
InPlayPackets == {j \in 1..Len(marketdata) : marketdata[j].md.present /\ marketdata[j].md.inPlay}

First(S) == CHOOSE j \in S : \A k \in S : j <= k

\* the snapshots whose pt lies less than window milliseconds before inPlayStartTime
\* (timestamps count microseconds)
SnapshotsWithin(window) ==
    {k \in 1..Len(ladders) : metadata.inPlayStartTime - ladders[k].pt < window * 1000}

PreLadderIsEarliestWithin(key, window) ==
    IF metadata.inPlayStartTime = None \/ SnapshotsWithin(window) = {}
    THEN key \notin DOMAIN metadata
    ELSE /\ key \in DOMAIN metadata
         /\ metadata[key] = ladders[First(SnapshotsWithin(window))].runners

(* C7: for a chronologically ordered stream, pre0ladder, pre5ladder and pre10ladder *)
(* of the final metadata are the runners of the earliest snapshot whose pt lies     *)
(* less than 1 000 ms, 300 000 ms and 600 000 ms before inPlayStartTime; a field is *)
(* absent exactly when the market never goes in-play or no packet lies in the       *)
(* window.                                                                          *)
C7_PreLaddersAreEarliestInWindow ==
    pc = "done" =>
        /\ PreLadderIsEarliestWithin("pre0ladder", 1000)
        /\ PreLadderIsEarliestWithin("pre5ladder", 300000)
        /\ PreLadderIsEarliestWithin("pre10ladder", 600000)

\* a finished run whose three fields come from three different snapshots, after a
\* first packet that lies outside every window
C7_Witness ==
    /\ pc = "done"
    /\ Len(ladders) = 4
    /\ {"pre0ladder", "pre5ladder", "pre10ladder"} \subseteq DOMAIN metadata
    /\ metadata.pre10ladder = ladders[2].runners
    /\ metadata.pre5ladder = ladders[3].runners
    /\ metadata.pre0ladder = ladders[4].runners

\* the file of the scenario: packets at 500 001, 700 000 and 999 500 ms, then the
\* in-play transition at 1 000 000 ms, run to its end
C8_Scenario ==
    /\ pc = "done"
    /\ [j \in 1..Len(marketdata) |-> marketdata[j].pt] = <<500001, 700000, 999500, 1000000>>
    /\ InPlayPackets = {4}

(* C8 as stated: in that scenario pre10ladder is the snapshot at 500 001, pre5ladder *)
(* the snapshot at 700 000 and pre0ladder the snapshot at 999 500.                  *)
C8_AsStated ==
    C8_Scenario =>
        /\ {"pre0ladder", "pre5ladder", "pre10ladder"} \subseteq DOMAIN metadata
        /\ metadata.pre10ladder = ladders[1].runners
        /\ metadata.pre5ladder = ladders[2].runners
        /\ metadata.pre0ladder = ladders[3].runners

(* C8 amended: in that scenario pre10ladder is the snapshot at 500 001, and both    *)
(* pre5ladder and pre0ladder are the snapshot at 999 500 (the packet at 700 000     *)
(* lies exactly 300 000 ms before the start, which is not less than 300 000).       *)
C8_PreLaddersOfScenario ==
    C8_Scenario =>
        /\ {"pre0ladder", "pre5ladder", "pre10ladder"} \subseteq DOMAIN metadata
        /\ metadata.pre10ladder = ladders[1].runners
        /\ metadata.pre5ladder = ladders[3].runners
        /\ metadata.pre0ladder = ladders[3].runners

\* the scenario, run to its end, with four different snapshots
C8_Witness ==
    /\ C8_Scenario
    /\ Len(ladders) = 4
    /\ \A j, k \in 1..4 : j # k => ladders[j].runners # ladders[k].runners

(* C9: inPlayStartTime is the pt of the first packet in file order whose market     *)
(* change carries a definition with inPlay true, and None when there is none.       *)
C9_InPlayStartIsFirstInPlayPacket ==
    metadata.inPlayStartTime =
        IF InPlayPackets = {} THEN None ELSE 1000 * marketdata[First(InPlayPackets)].pt

\* a finished run of a file whose first definition is not in-play and which has
\* in-play definitions at two different pts
C9_Witness ==
    /\ pc = "done"
    /\ 1 \notin InPlayPackets
    /\ \E j, k \in InPlayPackets : marketdata[j].pt < marketdata[k].pt
    /\ metadata.inPlayStartTime # None

(* C10: inPlayEndTime of the final metadata is the pt of the last packet of the     *)
(* stream, whether or not the market ever went in-play.                             *)
C10_InPlayEndIsLastPacket ==
    pc = "done" => metadata.inPlayEndTime = 1000 * marketdata[Len(marketdata)].pt

\* a finished run of a file that never goes in-play and whose last packet is later
\* than its first
C10_Witness ==
    /\ pc = "done"
    /\ InPlayPackets = {}
    /\ marketdata[1].pt < marketdata[Len(marketdata)].pt
    /\ metadata.inPlayEndTime = 1000 * marketdata[Len(marketdata)].pt

-----------------------------------------------------------------------------
(* Post-market finalization *)

\* the runners of the final market definition
FinalRunners == marketdata[Len(marketdata)].md.runners

\* the positions of the final runners that won, and of those that have a bsp
Winners == {j \in 1..Len(FinalRunners) : FinalRunners[j].status = "WINNER"}
WithBsp == {j \in 1..Len(FinalRunners) : FinalRunners[j].bsp # 0}

\* extend_post_market has returned / has raised
PostMarketDone == pc = "done"
PostMarketRaised == pc = "failed" /\ i = Len(marketdata)

\* C11: after post-market finalization winnerInfo is present exactly when some
\* final runner has status WINNER; its name and id are those of the first such
\* runner, and its bsp, when present, is the bsp of that same runner.
C11_WinnerInfoIsFirstWinner ==
    PostMarketDone =>
        /\ ("winnerInfo" \in DOMAIN metadata) <=> (Winners # {})
        /\ Winners # {} =>
              LET w == FinalRunners[First(Winners)]
              IN  /\ metadata.winnerInfo.name = w.name
                  /\ metadata.winnerInfo.id = w.id
                  /\ "bsp" \in DOMAIN metadata.winnerInfo =>
                         metadata.winnerInfo.bsp = w.bsp

PartialBsps == WithBsp # {} /\ WithBsp # 1..Len(FinalRunners)

\* C13: when some but not all final runners lack a bsp, post-market finalization
\* raises no error, the runners without a bsp are left out of favouriteInfo, and
\* a winner without a bsp is emitted in winnerInfo without a bsp field.
C13_PartialBspsAreTolerated ==
    PartialBsps =>
        /\ ~PostMarketRaised
        /\ PostMarketDone =>
              /\ \A j \in 1..Len(metadata.favouriteInfo) :
                     \E r \in WithBsp : metadata.favouriteInfo[j].id = FinalRunners[r].id
              /\ (Winners # {} /\ First(Winners) \notin WithBsp) =>
                     "bsp" \notin DOMAIN metadata.winnerInfo

-----------------------------------------------------------------------------
(* Runner changes the book cannot place *)

\* the positions of the runner changes of a market change whose id is not in the roster
UnknownIds(market_change) ==
    {j \in 1..Len(market_change.rc) :
        ToString(market_change.rc[j].id) \notin Range(runner_ids)}

\* what a runner's book holds apart from the per-packet trades and the best prices
Book(runner_ladder) ==
    [k \in {"atb", "atl", "trd", "ltp", "tv", "ttrdv"} |-> runner_ladder[k]]

\* the step emitted the snapshot of the next packet and run() goes on
PacketYieldsSnapshot ==
    /\ pc' = "run"
    /\ i' = i + 1
    /\ Len(ladders') = Len(ladders) + 1
    /\ ladders'[Len(ladders')].pt = process_packet(marketdata[i + 1])

\* no runner's book changes in the step
BooksUnchanged ==
    /\ DOMAIN current_ladder' = DOMAIN current_ladder
    /\ \A r \in DOMAIN current_ladder : Book(current_ladder'[r]) = Book(current_ladder[r])

\* C14: a runner change whose id is not in the roster of the first market
\* definition is silently ignored: the packet is processed without error and
\* yields its snapshot, no runner is added, and a packet that carries only such
\* changes leaves every roster runner's book unchanged.
C14_UnknownRunnerIgnored ==
    [][\A market_change \in MarketChanges :
          (market_change.has_rc /\ UnknownIds(market_change) # {}
           /\ run_iteration(market_change))
          => /\ PacketYieldsSnapshot
             /\ DOMAIN current_ladder' = Range(runner_ids)
             /\ UnknownIds(market_change) = 1..Len(market_change.rc) => BooksUnchanged]_vars

\* C15: a packet whose market change carries no rc field is processed without
\* error: every runner's atb, atl, trd, ltp, tv and ttrdv are unchanged and a
\* snapshot for that packet is emitted.
C15_MissingRcIsTolerated ==
    [][run_iteration(NoRc) => (PacketYieldsSnapshot /\ BooksUnchanged)]_vars

-----------------------------------------------------------------------------
(* Traded sizes that do not rise, and the scalars ltp and tv *)

\* the snapshot the step emits for runner r
NewSnapshot(r) == ladders'[Len(ladders')].runners[r]

\* entry j of a trd list carries a cumulative size that is not above the size the
\* runner held at that price before the packet
NotRisen(r, trd, j) == trd[j][2] <= DictGet(current_ladder[r].trd, trd[j][1], 0)

\* the price of entry j occurs only once in the trd list
PricedOnce(trd, j) == \A k \in 1..Len(trd) : trd[k][1] = trd[j][1] => k = j

\* C16: a trd entry [p, c] whose cumulative size c is not above the runner's prior
\* cumulative size at p emits no trade and adds nothing to ttrdv, while the trd
\* mapping at p takes the value c, or loses the level when c <= 0.
C16_SettledTrdEmitsNoTrade ==
    [][\A market_change \in TrdMarketChanges :
          run_iteration(market_change) =>
              LET r == ToString(market_change.rc[1].id)
                  trd == market_change.rc[1].trd
              IN  /\ \A j \in 1..Len(trd) :
                         (NotRisen(r, trd, j) /\ PricedOnce(trd, j)) =>
                             /\ \A k \in 1..Len(Field(NewSnapshot(r), "trades", <<>>)) :
                                    NewSnapshot(r).trades[k][1] # trd[j][1]
                             /\ IF trd[j][2] > 0
                                THEN DictGet(current_ladder'[r].trd, trd[j][1], 0) = trd[j][2]
                                ELSE ~HasKey(current_ladder'[r].trd, trd[j][1])
                  /\ (\A j \in 1..Len(trd) : NotRisen(r, trd, j)) =>
                         /\ current_ladder'[r].ttrdv = current_ladder[r].ttrdv
                         /\ "trades" \notin DOMAIN NewSnapshot(r)]_vars

\* the cumulative size at price 2 fell from 0.010 to 0.004 in the second packet:
\* no trade was emitted, ttrdv stayed at 0.01 and trd["2"] is 0.004
C16_Witness ==
    /\ Len(ladders) >= 2
    /\ Field(ladders[1].runners["1"], "trd", <<>>) = << <<"2", 10>> >>
    /\ Field(ladders[1].runners["1"], "ttrdv", 0) = 10
    /\ Field(ladders[2].runners["1"], "trd", <<>>) = << <<"2", 4>> >>
    /\ Field(ladders[2].runners["1"], "ttrdv", 0) = 10
    /\ "trades" \notin DOMAIN ladders[2].runners["1"]

\* C17: for ltp and tv of a runner, a runner change that carries a non-zero value
\* overwrites the stored value, and one in which the key is missing or 0 leaves
\* it unchanged; once ltp or tv is non-zero it never becomes unset or zero again.
C17_ScalarsOverwrittenOnlyByTruthyValues ==
    [][/\ \A market_change \in TrdMarketChanges :
              run_iteration(market_change) =>
                  LET r == ToString(market_change.rc[1].id)
                  IN  \A key \in {"ltp", "tv"} :
                          current_ladder'[r][key] =
                              IF market_change.rc[1][key] \notin {None, 0}
                              THEN market_change.rc[1][key]
                              ELSE current_ladder[r][key]
       /\ \A r \in DOMAIN current_ladder : \A key \in {"ltp", "tv"} :
              current_ladder[r][key] \notin {None, 0} =>
                  current_ladder'[r][key] \notin {None, 0}]_vars

\* ltp 2 and tv 0.010 were set, then ltp was overwritten by 3 in a change without
\* tv, then tv was overwritten by 0.020 in a change whose ltp is 0
C17_Witness ==
    /\ Len(ladders) >= 3
    /\ Field(ladders[1].runners["1"], "ltp", 0) = 2
    /\ Field(ladders[1].runners["1"], "tv", 0) = 10
    /\ Field(ladders[2].runners["1"], "ltp", 0) = 3
    /\ Field(ladders[2].runners["1"], "tv", 0) = 10
    /\ Field(ladders[3].runners["1"], "ltp", 0) = 3
    /\ Field(ladders[3].runners["1"], "tv", 0) = 20

-----------------------------------------------------------------------------
(* The pipeline: malformed files, errors and duplicates *)

\* some packet of the file has an mc list that is missing, empty or not of length 1
Malformed(file) == \E j \in 1..Len(file.mc) : file.mc[j] # 1

\* the documents of file f that are in the store
Written(f) ==
    {doc \in db.metadata : doc.file = f}
    \cup (documents(f) \cap db.ladders)
    \cup (documents(f) \cap db.marketdata)

\* main has returned or was left by an exception
MainEnded == main_pc \in {"done", "raised"}

\* C18: if any packet of a file has an mc list that is missing, empty or of a
\* length other than 1, no metadata document, no ladder document and no
\* raw-marketdata document of that file is written to the store.
C18_MalformedFileWritesNothing ==
    \A f \in 1..Len(files) : Malformed(files[f]) => Written(f) = {}

\* main is over, a malformed file that passed the filters was rejected and wrote
\* nothing, and another file wrote all of its documents
C18_Witness ==
    /\ MainEnded
    /\ \E f, g \in 1..Len(files) :
           /\ Malformed(files[f])
           /\ run_pc[f] = "raised"
           /\ Written(f) = {}
           /\ documents(g) \subseteq db.ladders
           /\ documents(g) \subseteq db.marketdata

\* C19: an error while processing one file stays scoped to that file: when main
\* is over, every file of the listing has been processed, in sequential as in
\* parallel mode, and a well-formed file that passed the filters has its
\* outputs written or was a duplicate.
C19_ErrorsStayScopedToTheFile ==
    MainEnded =>
        \A f \in 1..Len(files) :
            /\ run_pc[f] \in Over
            /\ build(files[f], sport) = "built" =>
                   \/ result_meta[f] = "DuplicateKeyError"
                   \/ documents(f) \subseteq db.ladders \cap db.marketdata

\* C20: when the metadata insert of a file reports a duplicate key, no ladder and
\* no raw-marketdata document of that file is inserted, run() does not raise, and
\* main goes on with the next file.
C20_DuplicateMetadataSkipsTheMarket ==
    \A f \in 1..Len(files) :
        result_meta[f] = "DuplicateKeyError" =>
            /\ documents(f) \cap (db.ladders \cup db.marketdata) = {}
            /\ run_pc[f] # "raised"
            /\ (~is_multiprocess /\ run_pc[f] = "returned" /\ next_file = f
                /\ f < Len(files)) => ENABLED main_loop

\* sequential mode: a file whose metadata insert was a duplicate has returned
\* without documents, and a file after it wrote its documents
C20_Witness ==
    /\ ~is_multiprocess
    /\ main_pc = "done"
    /\ \E f, g \in 1..Len(files) :
           /\ f < g
           /\ result_meta[f] = "DuplicateKeyError"
           /\ run_pc[f] = "returned"
           /\ result_meta[g] = "InsertOneResult"
           /\ documents(g) \subseteq db.ladders \cap db.marketdata

(***************************************************************************)
(* The filters                                                             *)
(***************************************************************************)

\* the first market definition of file f
FirstDefinition(f) == files[f].definition

\* the market type and the country code of file f both match the regular
\* expressions of the selected sport, a missing key read as the empty string
Matches(f) ==
    /\ market_regex(sport, IF "marketType" \in DOMAIN FirstDefinition(f)
                           THEN FirstDefinition(f).marketType ELSE <<>>)
    /\ country_regex(sport, IF "countryCode" \in DOMAIN FirstDefinition(f)
                            THEN FirstDefinition(f).countryCode ELSE <<>>)

\* some document of file f is in the store
Wrote(f) ==
    \/ \E doc \in db.metadata : doc.file = f
    \/ documents(f) \cap (db.ladders \cup db.marketdata) # {}

\* C21: a file produces documents only if the market type and the country code of
\* its first market definition both match the regular expressions of the selected
\* sport; otherwise run() returns with nothing built and nothing written.
C21_OnlyMatchingFilesAreWritten ==
    \A f \in 1..Len(files) :
        /\ Wrote(f) => Matches(f)
        /\ (run_pc[f] \notin {"waiting", "start"} /\ ~Matches(f)) =>
               /\ run_pc[f] = "returned"
               /\ result_meta[f] = "none"
               /\ ~Wrote(f)

\* horse racing: a WIN market of a country other than GB and IE has returned
\* with nothing written
C21_Witness ==
    /\ sport = "horseracing"
    /\ \E f \in 1..Len(files) :
           /\ FirstDefinition(f) = FilterKeys(WIN, <<"U", "S">>)
           /\ run_pc[f] = "returned"
           /\ ~Wrote(f)
    /\ MainEnded

\* C22: a market definition without marketType or countryCode is filtered with the
\* empty string in its place and raises nothing: without countryCode the file
\* passes the football and the tennis country filter and fails the horse-racing
\* one, and without marketType it fails the filter of all three sports.
C22_MissingFilterKeysReadAsEmpty ==
    \A f \in 1..Len(files) :
        LET definition == FirstDefinition(f)
            no_type == "marketType" \notin DOMAIN definition
            no_country == "countryCode" \notin DOMAIN definition
            filtered == run_pc[f] \notin {"waiting", "start"}
            passed == run_pc[f] # "returned" \/ result_meta[f] # "none"
        IN  /\ (no_type \/ no_country) => run_pc[f] # "raised"
            /\ (filtered /\ no_type) => ~passed
            /\ (filtered /\ no_country /\ sport = "horseracing") => ~passed
            /\ (filtered /\ no_country /\ ~no_type /\ sport # "horseracing") =>
                   (passed <=> market_regex(sport, definition.marketType))

\* tennis: a MATCH_ODDS market without countryCode wrote its documents
C22_Witness ==
    /\ sport = "tennis"
    /\ \E f \in 1..Len(files) :
           /\ FirstDefinition(f) = [marketType |-> MATCH_ODDS]
           /\ run_pc[f] = "returned"
           /\ documents(f) \subseteq db.ladders \cap db.marketdata

(***************************************************************************)
(* The batches of insert_many                                              *)
(***************************************************************************)

\* the batch numbers of an insert_many call on len documents
Batches(len) == 1..number_of_batches(len)

\* C23: when a stream of a file has 1000 or more documents, it is inserted in
\* batches of at most 1000 documents, every document belongs to exactly one batch,
\* batches are inserted in any order once submitted, and run() is past an
\* insert_many call, and the file finished, only when every batch of the call has
\* completed, that is when every document of the stream is in the collection.
C23_BatchesCoverTheStreamBeforeTheFileIsDone ==
    \A f \in 1..Len(files) :
        (data_len(f) >= 1000 /\ result_meta[f] # "DuplicateKeyError") =>
            /\ \A k \in Batches(data_len(f)) :
                   /\ batch(f, k) # {}
                   /\ Cardinality(batch(f, k)) <= 1000
            /\ UNION {batch(f, k) : k \in Batches(data_len(f))} = documents(f)
            /\ \A k, l \in Batches(data_len(f)) :
                   k # l => batch(f, k) \cap batch(f, l) = {}
            /\ \A k \in batches[f].completed : batch(f, k) \subseteq db[batches[f].collection]
            /\ run_pc[f] \in {"ladders", "returned"} => documents(f) \subseteq db.ladders
            /\ run_pc[f] = "returned" =>
                   /\ documents(f) \subseteq db.marketdata
                   /\ batches[f] = no_batches

\* a file of 2001 documents per stream is finished: three batches per stream, all
\* of them in the store
C23_Witness ==
    /\ Len(files) = 1
    /\ data_len(1) = 2001
    /\ number_of_batches(data_len(1)) = 3
    /\ run_pc[1] = "returned"
    /\ Cardinality(db.ladders) = 2001
    /\ Cardinality(db.marketdata) = 2001

(***************************************************************************)
(* Parallel mode                                                           *)
(***************************************************************************)

\* C24: in parallel mode main returns only after every submitted call of run() has
\* completed, not only the one submitted last: when main is over, no file is
\* waiting or being processed.
C24_ParallelMainWaitsForEveryFile ==
    (is_multiprocess /\ MainEnded) =>
        \A f \in 1..Len(files) : run_pc[f] \in Over

\* parallel mode, main is over: three files were submitted, all are over, and the
\* one submitted first wrote its documents
C24_Witness ==
    /\ is_multiprocess
    /\ MainEnded
    /\ Len(files) = 3
    /\ \A f \in 1..Len(files) : run_pc[f] \in Over
    /\ documents(1) \subseteq db.ladders \cap db.marketdata

(***************************************************************************)
(* Determinism                                                             *)
(***************************************************************************)

CrossedAfter(r) ==
    /\ current_ladder'[r].atb # <<>>
    /\ current_ladder'[r].atl # <<>>
    /\ HighestPrice(current_ladder'[r].atb) > LowestPrice(current_ladder'[r].atl)

\* C26: a packet that leaves some runner with a crossed book (bbp > blp) never
\* aborts processing: no error is raised, the snapshot of the packet is emitted
\* with the crossed ladders, the runner's bbp and blp take the crossed values,
\* and run() goes on with the next packet.
C26_CrossedBookNeverAborts ==
    [][\A market_change \in MarketChanges :
          (market_change.has_rc /\ UnknownIds(market_change) = {}
           /\ run_iteration(market_change))
          => \A r \in DOMAIN current_ladder' :
                 CrossedAfter(r) =>
                     /\ PacketYieldsSnapshot
                     /\ NewSnapshot(r).atb = current_ladder'[r].atb
                     /\ NewSnapshot(r).atl = current_ladder'[r].atl
                     /\ current_ladder'[r].bbp = HighestPrice(current_ladder'[r].atb)
                     /\ current_ladder'[r].blp = LowestPrice(current_ladder'[r].atl)
                     /\ current_ladder'[r].bbp > current_ladder'[r].blp]_vars

\* run() has returned; the second snapshot holds runner 1 with a back price of 3
\* above a lay price of 2, and one more packet was processed after it
C26_Witness ==
    /\ pc = "done"
    /\ Len(ladders) = 3
    /\ Field(ladders[2].runners["1"], "atb", <<>>) # <<>>
    /\ Field(ladders[2].runners["1"], "atl", <<>>) # <<>>
    /\ HighestPrice(ladders[2].runners["1"].atb) = 3
    /\ LowestPrice(ladders[2].runners["1"].atl) = 2

(***************************************************************************)
(* Raw packets                                                             *)
(***************************************************************************)

\* the raw packet the step appends to the returned stream
NewRawPacket == ts_marketdata'[Len(ts_marketdata')]

\* C27: every packet of the raw-packet stream has pt set to its parsed timestamp,
\* metadata set to the market id, no clk and no op field, and every other field
\* (the mc list among them) as it was in the input; this holds for every input
\* packet, also for one that arrives without clk or without op.
C27_RawPacketRewrite ==
    [][run_packet =>
          LET input == marketdata[i + 1]
          IN  /\ pc' = "run"
              /\ Len(ts_marketdata') = Len(ts_marketdata) + 1
              /\ DOMAIN NewRawPacket = (DOMAIN input \cup {"metadata"}) \ {"clk", "op"}
              /\ NewRawPacket.pt = input.pt * UsPerMs
              /\ NewRawPacket.metadata = MarketId
              /\ \A k \in DOMAIN input \ {"pt", "metadata", "clk", "op"} :
                     NewRawPacket[k] = input[k]]_vars

(***************************************************************************)
(* The roster of the snapshots                                             *)
(***************************************************************************)

\* the runner ids of the market definition of the first packet, as strings
FirstRoster ==
    {ToString(marketdata[1].md.runners[j].id) : j \in 1..Len(marketdata[1].md.runners)}

\* the runner holds nothing: no level, no traded size, no ltp, no tv
EntirelyEmpty(runner_ladder) ==
    /\ runner_ladder.atb = <<>>
    /\ runner_ladder.atl = <<>>
    /\ runner_ladder.trd = <<>>
    /\ runner_ladder.ltp \in {None, 0}
    /\ runner_ladder.tv \in {None, 0}
    /\ runner_ladder.ttrdv = 0

\* C28: in every emitted snapshot the runner ids under runners are the roster of
\* the first packet's market definition, whatever runners later definitions list,
\* and a runner with an entirely empty book appears as an empty object.
C28_SnapshotRosterIsTheFirstRoster ==
    /\ \A k \in 1..Len(ladders) : DOMAIN ladders[k].runners = FirstRoster
    /\ (pc # "failed" /\ Len(ladders) >= 1) =>
           \A r \in DOMAIN current_ladder :
               EntirelyEmpty(current_ladder[r]) =>
                   DOMAIN ladders[Len(ladders)].runners[r] = {}

\* the first definition lists runners 1 and 2, the definition of the second packet
\* lists runners 3 and 1; the second snapshot holds runner 1 with a level and
\* runner 2 as an empty object
C28_Witness ==
    /\ Len(ladders) >= 2
    /\ FirstRoster = {"1", "2"}
    /\ "marketDefinition" \in DOMAIN ladders[2]
    /\ Len(ladders[2].marketDefinition.runners) = 2
    /\ ladders[2].marketDefinition.runners[1].id = 3
    /\ DOMAIN ladders[2].runners = {"1", "2"}
    /\ "atb" \in DOMAIN ladders[2].runners["1"]
    /\ DOMAIN ladders[2].runners["2"] = {}

(***************************************************************************)
(* The sport hooks                                                         *)
(***************************************************************************)

\* the fields of the horse-racing hook
HookFields == {"raceTypeAdjusted", "distance", "isHandicap"}

\* the race type the name of a market stands for: Hurdle before Chase before NH Flat
\* before Flat
RaceTypeOf(name) ==
    LET has(word) == occurs(word, name)
    IN  CASE has(<<"H", "r", "d">>) \/ has(<<"H", "u", "r", "d", "l", "e">>) -> "Hurdle"
          [] ~(has(<<"H", "r", "d">>) \/ has(<<"H", "u", "r", "d", "l", "e">>)) /\ (has(<<"C", "h", "s">>) \/ has(<<"C", "h", "a", "s", "e">>)) -> "Chase"
          [] ~(has(<<"H", "r", "d">>) \/ has(<<"H", "u", "r", "d", "l", "e">>)) /\ ~(has(<<"C", "h", "s">>) \/ has(<<"C", "h", "a", "s", "e">>)) /\ has(<<"I", "N", "H", "F">>) -> "NH Flat"
          [] OTHER -> "Flat"

\* C29: with the horse-racing hook, raceTypeAdjusted, distance and isHandicap are
\* in the returned metadata exactly when the marketType of the final definition
\* is WIN, and raceTypeAdjusted is Hurdle when the name contains Hrd or Hurdle,
\* else Chase when it contains Chs or Chase, else NH Flat when it contains INHF,
\* else Flat; with the football and the tennis hook none of the three is added.
C29_HorseRacingHookOnWinMarkets ==
    LET final == marketdata[Len(marketdata)].md
    IN  IF pc = "done" /\ sport = "horseracing" /\ final.marketType = <<"W", "I", "N">>
        THEN /\ HookFields \subseteq DOMAIN metadata
             /\ metadata.raceTypeAdjusted = RaceTypeOf(final.name)
        ELSE HookFields \cap DOMAIN metadata = {}

\* horse racing: a file that opened as an EACH_WAY market and ended as a WIN market
\* named "2m Chase Hurdle" has returned with the race type Hurdle
C29_Witness ==
    /\ pc = "done"
    /\ sport = "horseracing"
    /\ marketdata[1].md.marketType = EACH_WAY
    /\ marketdata[2].md.marketType = WIN
    /\ marketdata[2].md.name = <<"2", "m", " ", "C", "h", "a", "s", "e", " ", "H", "u", "r", "d", "l", "e">>
    /\ metadata.raceTypeAdjusted = "Hurdle"
    /\ metadata.distance = <<"2", "m">>
    /\ metadata.isHandicap = FALSE

(***************************************************************************)
(* Trades are derived before the trd mapping is merged                     *)
(***************************************************************************)

\* the delta of entry j of a trd list against the mapping prior: the cumulative
\* size of the entry minus the size prior holds at its price, 0 when it holds
\* none, rounded to two decimals
Delta(trd, prior, j) == round2(trd[j][2] - DictGet(prior, trd[j][1], 0))

\* the price and delta of the entries of a trd list from entry j on whose delta
\* against the mapping prior is above 0, in the order of the list
RECURSIVE DerivedTrades(_, _, _)
DerivedTrades(trd, prior, j) ==
    IF j > Len(trd) THEN <<>>
    ELSE (IF Delta(trd, prior, j) > 0
          THEN << <<trd[j][1], Delta(trd, prior, j)>> >> ELSE <<>>)
         \o DerivedTrades(trd, prior, j + 1)

\* the price and size of the trades the step emits for runner r
NewTrades(r) ==
    LET trades == Field(NewSnapshot(r), "trades", <<>>)
    IN  [k \in 1..Len(trades) |-> <<trades[k][1], trades[k][2]>>]

\* C30: for each entry [p, c] of the trd list of a runner change, the delta is c
\* minus the cumulative size the runner's trd mapping held at p before the runner
\* change was applied (0 if p was absent), rounded to 2 decimals; the mapping is
\* merged only after all trades of the change were derived, and a trade is
\* emitted exactly for the entries with a delta above 0, in their order.
C30_TradesDerivedBeforeTrdIsMerged ==
    [][\A market_change \in TrdMarketChanges :
          run_iteration(market_change) =>
              LET r == ToString(market_change.rc[1].id)
                  trd == market_change.rc[1].trd
              IN  /\ NewTrades(r) = DerivedTrades(trd, current_ladder[r].trd, 1)
                  /\ \A j \in 1..Len(trd) :
                         (\A k \in (j + 1)..Len(trd) : trd[k][1] # trd[j][1]) =>
                             DictGet(current_ladder'[r].trd, trd[j][1], 0)
                                 = IF trd[j][2] > 0 THEN trd[j][2] ELSE 0]_vars

\* the second packet carried trd = [[2, 0.004], [2, 0.016]] on a mapping that held
\* 0.010 at price 2: one trade of 0.01 was emitted and the mapping holds 0.016
C30_Witness ==
    /\ Len(ladders) >= 2
    /\ Field(ladders[1].runners["1"], "trd", <<>>) = << <<"2", 10>> >>
    /\ Field(ladders[2].runners["1"], "trd", <<>>) = << <<"2", 16>> >>
    /\ Len(Field(ladders[2].runners["1"], "trades", <<>>)) = 1
    /\ ladders[2].runners["1"].trades[1][1] = 2
    /\ ladders[2].runners["1"].trades[1][2] = 10

(***************************************************************************)
(* The trades of a snapshot belong to its packet                           *)
(***************************************************************************)

\* the trd mapping prior after the trd list of a runner change was merged into it
MergedTrd(prior, runner_change) ==
    update_runner_ladder([empty_runner_ladder EXCEPT !.trd = prior], runner_change, "trd")

\* the price and delta of the trades derived for runner r from the runner changes
\* of rc from position j on, in their order, prior being the trd mapping of r
\* before change j
RECURSIVE TradesOfPacket(_, _, _, _)
TradesOfPacket(r, rc, j, prior) ==
    IF j > Len(rc) THEN <<>>
    ELSE IF ToString(rc[j].id) # r THEN TradesOfPacket(r, rc, j + 1, prior)
    ELSE DerivedTrades(rc[j].trd, prior, 1)
         \o TradesOfPacket(r, rc, j + 1, MergedTrd(prior, rc[j]))

\* C31: the trades listed for a runner in the snapshot of a packet are exactly the
\* trades derived from that packet's runner changes for the runner, so that no
\* trade of an earlier packet is listed again, and a runner with no change in the
\* packet has no trades field in its snapshot.
C31_SnapshotTradesAreThePacketsTrades ==
    [][\A market_change \in MarketChanges :
          (market_change.has_rc /\ UnknownIds(market_change) = {}
           /\ run_iteration(market_change))
          => \A r \in DOMAIN current_ladder :
                 /\ NewTrades(r)
                        = TradesOfPacket(r, market_change.rc, 1, current_ladder[r].trd)
                 /\ (\A j \in 1..Len(market_change.rc) :
                         ToString(market_change.rc[j].id) # r)
                        => "trades" \notin DOMAIN NewSnapshot(r)]_vars

(***************************************************************************)
(* The pre-in-play ladders are set once                                    *)
(***************************************************************************)

PreFields == {"pre0ladder", "pre5ladder", "pre10ladder"}

\* C32: once pre0ladder, pre5ladder or pre10ladder is set in the metadata, its
\* value never changes again: not by later snapshots within the threshold, not by
\* later changes of the runners' books, not by the post-market finalization.
C32_PreLaddersAreSetOnce ==
    [][\A key \in PreFields :
          key \in DOMAIN metadata =>
              /\ key \in DOMAIN metadata'
              /\ metadata'[key] = metadata[key]]_vars

\* run() has returned; pre10ladder is the book of an earlier packet, and a later
\* snapshot within ten minutes of the in-play start holds another book
C32_Witness ==
    /\ pc = "done"
    /\ "winnerInfo" \in DOMAIN metadata
    /\ "pre10ladder" \in DOMAIN metadata
    /\ \E k \in 1..Len(ladders) :
           /\ ladders[k].pt > pre10ladder[1].pt
           /\ metadata.inPlayStartTime - ladders[k].pt < TEN_MINUTES * UsPerMs
           /\ metadata.inPlayStartTime - ladders[k].pt >= 0
           /\ Field(ladders[k].runners["1"], "atb", <<>>)
                  # Field(metadata.pre10ladder["1"], "atb", <<>>)

(***************************************************************************)
(* Appended snapshots are not changed                                      *)
(***************************************************************************)

\* the snapshot of the next packet as create_ts_document returns it, before it is
\* appended
DocumentOf(market_change) ==
    create_ts_document(format_ladder(update_ladder(current_ladder, market_change).ladder),
                       update_market_definition(marketdata[i + 1]),
                       process_packet(marketdata[i + 1]), metadata.marketId)

OrderPts == {1000, 2000, 3000}

OrderStream(pts) ==
    [j \in 1..Len(pts) |->
        Packet(pts[j],
               IF j = 1 THEN Def(FALSE, ActiveRunners)
               ELSE IF j = Len(pts) THEN Def(TRUE, SettledRunners)
               ELSE NoDef)]

OrderMarketChanges ==
    {NoRc, Rc(<<>>), Rc(<<RunnerChange(1, Level(2, 10), <<>>, Level(2, 10), 2, 10)>>)}

InitOrder ==
    \E n \in 1..MaxPackets : \E pts \in [1..n -> OrderPts] : InitWith(OrderStream(pts))

NextOrder ==
    (\E market_change \in OrderMarketChanges : run_iteration(market_change)) \/ run_return

SpecOrder == InitOrder /\ [][NextOrder]_vars

\* C34: when run() has returned, the list of snapshots and the list of raw packets
\* each have one element per packet of the file, in the order of the file whatever
\* the timestamps are: the k-th snapshot and the k-th raw packet carry the parsed
\* pt of the k-th packet and the market id in their metadata field.
C34_StreamsKeepTheOrderOfTheFile ==
    pc = "done" =>
        /\ Len(ladders) = Len(marketdata)
        /\ Len(ts_marketdata) = Len(marketdata)
        /\ \A k \in 1..Len(marketdata) :
               /\ ladders[k].pt = marketdata[k].pt * UsPerMs
               /\ ts_marketdata[k].pt = marketdata[k].pt * UsPerMs
               /\ ladders[k].metadata = MarketId
               /\ ts_marketdata[k].metadata = MarketId

\* run() has returned on a file of three packets whose pts fall and then rise
C34_Witness ==
    /\ pc = "done"
    /\ Len(marketdata) = 3
    /\ marketdata[1].pt > marketdata[2].pt
    /\ marketdata[2].pt < marketdata[3].pt
    /\ Len(ladders) = 3
    /\ ladders[2].pt < ladders[1].pt

(***************************************************************************)
(* Removing a price that is not in the ladder                              *)
(***************************************************************************)

\* the update is not empty and each of its levels has size 0 at a price that the
\* ladder does not hold
RemovesOnlyAbsent(update, ladder) ==
    /\ update # <<>>
    /\ \A j \in 1..Len(update) : update[j][2] = 0 /\ ~HasKey(ladder, update[j][1])

\* C35: an atb or atl update with size 0 for a price that is not in the ladder
\* (never seen, removed before, or pushed out by the cap of 10 levels) changes
\* nothing: the ladder after the packet is the ladder before it, and no error is
\* raised.
C35_RemovingAnAbsentPriceChangesNothing ==
    [][\A market_change \in LadderMarketChanges :
          \A j \in 1..Len(market_change.rc) :
              LET runner_change == market_change.rc[j]
                  r == ToString(runner_change.id)
              IN  \A price_key \in {"atb", "atl"} :
                      (/\ RemovesOnlyAbsent(runner_change[price_key],
                                            current_ladder[r][price_key])
                       /\ run_iteration(market_change))
                      => /\ pc' = "run"
                         /\ current_ladder'[r][price_key] = current_ladder[r][price_key]]_vars

\* the first packet quoted eleven back prices, of which the ten highest were kept,
\* the second one a twelfth that pushed price 2 out; the third packet left the
\* ladder without price 2 as it was
C35_Witness ==
    /\ i = 3
    /\ pc = "run"
    /\ HasKey(Field(ladders[1].runners["1"], "atb", <<>>), 2)
    /\ Len(Field(ladders[2].runners["1"], "atb", <<>>)) = TopN
    /\ ~HasKey(Field(ladders[2].runners["1"], "atb", <<>>), 2)
    /\ Field(ladders[3].runners["1"], "atb", <<>>) = Field(ladders[2].runners["1"], "atb", <<>>)
    /\ current_ladder["1"].atb = Field(ladders[2].runners["1"], "atb", <<>>)

(***************************************************************************)
(* A market that goes in-play has its three pre-market ladders             *)
(***************************************************************************)

\* C36: if the market goes in-play (inPlayStartTime is not None) and run() returns,
\* pre0ladder, pre5ladder and pre10ladder are all in the final metadata, since the
\* packet of the in-play transition lies within the three windows itself; for
\* packets in chronological order each field holds the runners of a snapshot
\* whose pt is not later than inPlayStartTime.
C36_InPlayMarketHasItsPreLadders ==
    (pc = "done" /\ metadata.inPlayStartTime # None) =>
        \A key \in PreFields :
            /\ key \in DOMAIN metadata
            /\ \E k \in 1..Len(ladders) :
                   /\ ladders[k].pt <= metadata.inPlayStartTime
                   /\ metadata[key] = ladders[k].runners

\* a finished run whose only in-play packet is the last one, all earlier packets
\* lying ten minutes or more before it: the three fields hold the runners of the
\* snapshot of the in-play packet, which differ from those of the snapshot before
C36_Witness ==
    /\ pc = "done"
    /\ Len(ladders) >= 2
    /\ InPlayPackets = {Len(marketdata)}
    /\ SnapshotsWithin(TEN_MINUTES) = {Len(ladders)}
    /\ \A key \in PreFields :
           /\ key \in DOMAIN metadata
           /\ metadata[key] = ladders[Len(ladders)].runners
           /\ metadata[key] # ladders[Len(ladders) - 1].runners

(***************************************************************************)
(* ttrdv against the sizes of the trd mapping                              *)
(***************************************************************************)

\* C37: after every packet, for every runner, ttrdv is greater than or equal to the
\* sum of the cumulative sizes its trd mapping holds (ttrdv can only exceed that
\* sum, through discarded negative deltas and removed levels).
C37_TtrdvIsAtLeastTheSumOfTrd ==
    pc # "failed" =>
        \A r \in DOMAIN current_ladder :
            current_ladder[r].ttrdv >= SumVolumes(current_ladder[r].trd)

(***************************************************************************)
(* The stored ladders against the full book                                *)
(***************************************************************************)

(* Inputs of SpecTop: files of up to MaxPackets packets that are stored with their *)
(* market change, so that the updates a runner received can be read from the file:  *)
(* an update of one level more than the ladders keep, a removal, a new size and a   *)
(* price beyond the others, on either side of runner 1                              *)

TopUpdates == {WideUpdate, Level(2, 0), Level(1, 20), Level(TopN + 2, 10)}

TopMarketChanges ==
    {NoRc}
    \cup {Rc(<<RunnerChange(1, u, <<>>, <<>>, 0, 0)>>) : u \in TopUpdates}
    \cup {Rc(<<RunnerChange(1, <<>>, u, <<>>, 0, 0)>>) : u \in TopUpdates}

TopStream(changes) ==
    [j \in 1..Len(changes) |->
        Packet(j * 1000, IF j = 1 THEN Def(FALSE, ActiveRunners) ELSE NoDef)
        @@ [mc |-> changes[j]]]

InitTop ==
    \E n \in 1..MaxPackets :
        \E changes \in [1..n -> TopMarketChanges] : InitWith(TopStream(changes))

NextTop == run_packet \/ run_return

SpecTop == InitTop /\ [][NextTop]_vars

\* price -> size of the most recent update of the side price_key of runner r in the
\* runner changes rc, from position j on, over the mapping full
RECURSIVE LastSizes(_, _, _, _, _)
LastSizes(r, price_key, rc, j, full) ==
    IF j > Len(rc) THEN full
    ELSE LastSizes(r, price_key, rc, j + 1,
                   IF ToString(rc[j].id) = r THEN DictUpdate(full, rc[j][price_key])
                   ELSE full)

\* the full book of the side price_key of runner r after the first n packets: each
\* price with the size of its most recent update, for the prices whose size is > 0
RECURSIVE LastSizesOfPackets(_, _, _)
LastSizesOfPackets(r, price_key, n) ==
    IF n = 0 THEN <<>>
    ELSE LastSizes(r, price_key, marketdata[n].mc.rc, 1,
                   LastSizesOfPackets(r, price_key, n - 1))

FullBook(r, price_key, n) ==
    SelectSeq(LastSizesOfPackets(r, price_key, n), LAMBDA e : e[2] > 0)

\* C38: after any sequence of atb updates for a runner, the stored atb ladder is
\* the 10 highest-priced levels of the full book, and the stored atl ladder the 10
\* lowest-priced levels of the full book: cutting to 10 after every update loses
\* no level that later belongs to the best 10.
C38_StoredLaddersAreTheBestOfTheFullBook ==
    pc # "failed" =>
        \A r \in DOMAIN current_ladder :
            /\ current_ladder[r].atb = Take(sorted_reverse(FullBook(r, "atb", i)), 10)
            /\ current_ladder[r].atl = Take(sorted(FullBook(r, "atl", i)), 10)

(***************************************************************************)
(* Creation of the time-series collections                                 *)
(***************************************************************************)

\* C39: with parallel per-file workers on one MongoDB interface, the creation of a
\* time-series collection is attempted at most once: in no interleaving of the
\* list_collection_names check and the create_collection call of insert_many does
\* a worker call create_collection for a collection that exists by then.
C39_CollectionCreatedAtMostOnce ==
    [][\A f \in 1..Len(files) : \A collection \in {"ladders", "marketdata"} :
          create_collection(f, collection) => collection \notin db.collections]_vars

(***************************************************************************)
(* What a runner change leaves alone                                       *)
(***************************************************************************)

\* the runner changes of the packet that name runner r
ChangesOf(market_change, r) ==
    {j \in 1..Len(market_change.rc) : ToString(market_change.rc[j].id) = r}

\* C40: applying a runner change for runner r leaves the atb, atl, trd, ltp, tv and
\* ttrdv of every other runner unchanged, and leaves unchanged every ladder side
\* (atb, atl, trd) of r for which the runner change carries no key.
C40_RunnerChangeLeavesTheRestAlone ==
    [][\A market_change \in MarketChanges :
          (market_change.has_rc /\ run_iteration(market_change) /\ pc' = "run")
          => \A r \in DOMAIN current_ladder :
                 /\ ChangesOf(market_change, r) = {}
                        => Book(current_ladder'[r]) = Book(current_ladder[r])
                 /\ \A price_key \in Sides :
                        (\A j \in ChangesOf(market_change, r) :
                             market_change.rc[j][price_key] = <<>>)
                        => current_ladder'[r][price_key] = current_ladder[r][price_key]]_vars

\* the first packet gave runner 1 a back level, a trade and its scalars; the second
\* one named runner 2 only and gave it a traded size: runner 1 is as it was
C40_Witness ==
    /\ Len(ladders) >= 2
    /\ Field(ladders[1].runners["1"], "atb", <<>>) = << <<3, 10>> >>
    /\ Field(ladders[1].runners["1"], "trd", <<>>) = << <<"2", 10>> >>
    /\ Field(ladders[1].runners["2"], "trd", <<>>) = <<>>
    /\ Field(ladders[2].runners["2"], "trd", <<>>) = << <<"2", 10>> >>
    /\ \A key \in {"atb", "atl", "trd", "ltp", "tv", "ttrdv"} :
           Field(ladders[2].runners["1"], key, None) = Field(ladders[1].runners["1"], key, None)

=============================================================================
